---- MODULE Spec2Model ----
(***************************************************************************)
(* Promoter-name reconciliation and credit-installment status engine of    *)
(* integracion_app3.8.py.                                                  *)
(*                                                                         *)
(* Text is a sequence of characters, a character a one- or two-letter      *)
(* string: "E'" is the precomposed E with acute accent (U+00C9), "e'" its  *)
(* lower case (U+00E9), "'" the combining acute accent (U+0301) that NFKD   *)
(* splits off.  Amounts are whole centavos, dates are day numbers with day  *)
(* 0 = Friday 2023-01-06.  A missing cell (NaN / NaT / pd.NA) and Python's  *)
(* None are the one-element sequences NaN and None.  In the credit-detail   *)
(* tab the centavos c of a cell stand for the float64 nearest to c / 100,   *)
(* and the arithmetic on them is the float64 arithmetic of the code.        *)
(***************************************************************************)
EXTENDS Integers, Sequences, FiniteSets, TLC

VARIABLES
    pc,                 \* position of main() in its load-and-reconcile block
    vas_rows,           \* rows of the uploaded sheet "Control"
    df_control,         \* promoter directory (sheet "Control")
    cob_rows,           \* rows of the uploaded collection sheet
    col_rows,           \* rows of the uploaded disbursement sheet
    desc_rows,          \* rows of the uploaded renewal-discount sheet
    pagos_rows,         \* rows of the uploaded expected-balance sheet
    df_cobranza,        \* deposits after load_data_cobranza and reconciliation
    df_colocaciones,    \* df_colocaciones_info_completa
    df_desc,            \* load_data_descuentos: its row table when it returns
    df_desc_agg,        \* load_data_descuentos: the table it returns
    df_pagos_raw,       \* expected balances after reconciliation
    df_pagos,           \* expected balances grouped by code
    unmatched_report,   \* per source: the raw names shown as unmatched
    fuzzy_calls,        \* per source: the names handed to fuzzy_map
    fz,                 \* one call of fuzzy_map: arguments and result
    fn,                 \* one call of another helper: arguments and result
    hoy,                \* reference date of the credit-detail tab
    df_col_prom,        \* loans of the selected promoter
    df_cob_prom,        \* deposits of the selected promoter
    filas               \* status rows of the credit-detail tab

mainVars == <<pc, vas_rows, df_control, cob_rows, col_rows, desc_rows, pagos_rows,
              df_cobranza, df_colocaciones, df_desc, df_desc_agg,
              df_pagos_raw, df_pagos, unmatched_report, fuzzy_calls>>
loanVars == <<hoy, df_col_prom, df_cob_prom, filas>>
vars == <<mainVars, fz, fn, loanVars>>

-----------------------------------------------------------------------------
(* Bounds of the model.                                                    *)

MaxRows == 2
MaxChoices == 2
MaxDeposits == 2
MaxDay == 100

-----------------------------------------------------------------------------
(* Missing values.                                                         *)

NaN == <<"NaN">>
None == <<"None">>
NoCode == "<NA>"

IsNa(x) == x = NaN \/ x = None

Range(s) == {s[i] : i \in 1..Len(s)}

Min2(a, b) == IF a <= b THEN a ELSE b
Max2(a, b) == IF a >= b THEN a ELSE b

RECURSIVE SelectIdx(_, _, _)
SelectIdx(s, keep, i) ==
    IF i > Len(s) THEN <<>>
    ELSE (IF i \in keep THEN <<s[i]>> ELSE <<>>) \o SelectIdx(s, keep, i + 1)

RECURSIVE SumSeq(_)
SumSeq(s) == IF s = <<>> THEN 0 ELSE Head(s) + SumSeq(Tail(s))

-----------------------------------------------------------------------------
(* Characters: code-point order, str.upper, NFKD, category Mn, whitespace.  *)

UpperLetters ==
    <<"A", "C", "D", "E", "F", "I", "J", "M", "N", "O", "P", "R", "S", "T", "U", "V">>
LowerLetters ==
    <<"a", "c", "d", "e", "f", "i", "j", "m", "n", "o", "p", "r", "s", "t", "u", "v">>

\* every character of the model, in increasing code point: "2^" is superscript
\* two (U+00B2), "o~" the masculine ordinal indicator (U+00BA), "E'" and "e'"
\* E and e with acute, "ss" sharp s (U+00DF), "'" the combining acute (U+0301)
\* and "fi" the ligature (U+FB01)
Alphabet ==
    <<" ", "2">> \o UpperLetters \o LowerLetters
        \o <<"2^", "o~", "E'", "ss", "e'", "'", "fi">>

Ord(c) == CHOOSE i \in 1..Len(Alphabet) : Alphabet[i] = c

IsSpace(c) == c = " "

\* str.upper() of one character
UpperChar(c) ==
    IF c = "e'" THEN "E'"
    ELSE IF \E i \in 1..Len(LowerLetters) : LowerLetters[i] = c
         THEN UpperLetters[CHOOSE i \in 1..Len(LowerLetters) : LowerLetters[i] = c]
         ELSE c

\* str.upper() of one character: sharp s and the ligature become two letters
UpperOf(c) ==
    IF c = "ss" THEN <<"S", "S">>
    ELSE IF c = "fi" THEN <<"F", "I">>
    ELSE <<UpperChar(c)>>

\* unicodedata.normalize("NFKD", c) of one character
Nfkd(c) ==
    IF c = "E'" THEN <<"E", "'">>
    ELSE IF c = "e'" THEN <<"e", "'">>
    ELSE IF c = "o~" THEN <<"o">>
    ELSE IF c = "2^" THEN <<"2">>
    ELSE IF c = "fi" THEN <<"f", "i">>
    ELSE <<c>>

\* unicodedata.category(c) == "Mn"
IsMn(c) == c = "'"

-----------------------------------------------------------------------------
(* Strings.                                                                *)

\* str(x): a missing cell prints as "nan"
Str(x) == IF x = NaN THEN <<"n", "a", "n">> ELSE x

RECURSIVE LStrip(_)
LStrip(s) == IF s # <<>> /\ IsSpace(Head(s)) THEN LStrip(Tail(s)) ELSE s

RECURSIVE RStrip(_)
RStrip(s) ==
    IF s # <<>> /\ IsSpace(s[Len(s)]) THEN RStrip(SubSeq(s, 1, Len(s) - 1)) ELSE s

Strip(s) == RStrip(LStrip(s))

RECURSIVE Upper(_)
Upper(s) == IF s = <<>> THEN <<>> ELSE UpperOf(Head(s)) \o Upper(Tail(s))

RECURSIVE NfkdStr(_)
NfkdStr(s) == IF s = <<>> THEN <<>> ELSE Nfkd(Head(s)) \o NfkdStr(Tail(s))

RECURSIVE DropMn(_)
DropMn(s) ==
    IF s = <<>> THEN <<>>
    ELSE (IF IsMn(Head(s)) THEN <<>> ELSE <<Head(s)>>) \o DropMn(Tail(s))

\* " ".join(s.split()): runs of whitespace become one space, the ends are trimmed
RECURSIVE Collapse(_)
Collapse(s) ==
    IF s = <<>> THEN <<>>
    ELSE IF IsSpace(Head(s))
         THEN (IF LStrip(s) = <<>> THEN <<>> ELSE <<" ">> \o Collapse(LStrip(s)))
         ELSE <<Head(s)>> \o Collapse(Tail(s))

JoinSplit(s) == Collapse(LStrip(s))

\* Series.str.strip().str.upper(): a missing cell stays missing
StrStripUpper(x) == IF x = NaN THEN NaN ELSE Upper(Strip(x))

\* Series.astype(str).str.strip().str.upper(): a missing cell becomes "NAN"
AsTypeStrStripUpper(x) == Upper(Strip(Str(x)))

normalize_name(s) == JoinSplit(DropMn(NfkdStr(Upper(Strip(Str(s))))))

\* Python's order on str: lexicographic by code point
RECURSIVE StrLess(_, _)
StrLess(s, t) ==
    IF t = <<>> THEN FALSE
    ELSE IF s = <<>> THEN TRUE
    ELSE IF Head(s) # Head(t) THEN Ord(Head(s)) < Ord(Head(t))
    ELSE StrLess(Tail(s), Tail(t))

-----------------------------------------------------------------------------
(* difflib.SequenceMatcher(None, a, b), positions counted from 0 as in the  *)
(* library.  No element is junk: isjunk is None and the automatic junk rule *)
(* needs a second sequence of 200 elements or more.                         *)

\* length of the common run that starts at a[i] and b[j] inside the windows
RECURSIVE CommonLen(_, _, _, _, _, _)
CommonLen(a, b, i, j, ahi, bhi) ==
    IF i < ahi /\ j < bhi /\ a[i + 1] = b[j + 1]
    THEN 1 + CommonLen(a, b, i + 1, j + 1, ahi, bhi)
    ELSE 0

\* the block find_longest_match returns, given the length len[<<i, j>>] of the
\* common run at every pair of positions: the longest block, of those the one
\* that starts earliest in a, of those the one that starts earliest in b
LongestBlock(len, alo, ahi, blo, bhi) ==
    IF \A p \in DOMAIN len : len[p] = 0 THEN [i |-> alo, j |-> blo, k |-> 0]
    ELSE CHOOSE x \in {[i |-> p[1], j |-> p[2], k |-> len[p]] : p \in DOMAIN len} :
             \A q \in DOMAIN len :
                 \/ len[q] < x.k
                 \/ len[q] = x.k /\ (x.i < q[1] \/ (x.i = q[1] /\ x.j <= q[2]))

\* SequenceMatcher.find_longest_match(alo, ahi, blo, bhi)
find_longest_match(a, b, alo, ahi, blo, bhi) ==
    LongestBlock([p \in (alo..(ahi - 1)) \X (blo..(bhi - 1)) |->
                      CommonLen(a, b, p[1], p[2], ahi, bhi)],
                 alo, ahi, blo, bhi)

\* SequenceMatcher.get_matching_blocks, summed: the number of matched elements
RECURSIVE MatchedSize(_, _, _, _, _, _)
RECURSIVE MatchedAround(_, _, _, _, _, _, _)
MatchedAround(x, a, b, alo, ahi, blo, bhi) ==
    IF x.k = 0 THEN 0
    ELSE x.k
         + (IF alo < x.i /\ blo < x.j
            THEN MatchedSize(a, b, alo, x.i, blo, x.j) ELSE 0)
         + (IF x.i + x.k < ahi /\ x.j + x.k < bhi
            THEN MatchedSize(a, b, x.i + x.k, ahi, x.j + x.k, bhi) ELSE 0)

MatchedSize(a, b, alo, ahi, blo, bhi) ==
    MatchedAround(find_longest_match(a, b, alo, ahi, blo, bhi), a, b, alo, ahi, blo, bhi)

\* 2.0 * matches / length (1.0 when the length is 0), kept as the fraction num / den
CalculateRatio(matches, length) ==
    IF length = 0 THEN [num |-> 1, den |-> 1] ELSE [num |-> 2 * matches, den |-> length]

\* SequenceMatcher(None, a, b).ratio()
ratio(a, b) == CalculateRatio(MatchedSize(a, b, 0, Len(a), 0, Len(b)), Len(a) + Len(b))

\* r >= cutoff, the cutoff given in hundredths
RatioAtLeast(r, cutoff) == 100 * r.num >= cutoff * r.den

RatioLess(r, s) == r.num * s.den < s.num * r.den

\* heapq.nlargest(1, result) over the pairs (score[x], x): the largest score, and
\* among equal scores the largest string
Nlargest1(result, score) ==
    IF result = {} THEN <<>>
    ELSE <<CHOOSE x \in result :
               \A y \in result :
                   \/ RatioLess(score[y], score[x])
                   \/ ~RatioLess(score[x], score[y]) /\ ~StrLess(x, y)>>

\* the possibilities whose score reaches the cutoff
CloseEnough(score, cutoff) == {x \in DOMAIN score : RatioAtLeast(score[x], cutoff)}

\* difflib.get_close_matches(word, possibilities, n=1, cutoff): quick_ratio and
\* real_quick_ratio are upper bounds of ratio and filter nothing more
ScoresOf(word, possibilities) == [x \in Range(possibilities) |-> ratio(x, word)]

GetCloseMatches(score, cutoff) == Nlargest1(CloseEnough(score, cutoff), score)

get_close_matches(word, possibilities, cutoff) ==
    GetCloseMatches(ScoresOf(word, possibilities), cutoff)

DefaultCutoff == 80

\* fuzzy_map that forgets its cutoff
fuzzy_map_no_cutoff(name, choices, cutoff) ==
    LET m == get_close_matches(name, choices, 0) IN IF m # <<>> THEN m[1] ELSE None

\* fuzzy_map that accepts only a ratio above its cutoff
fuzzy_map_strict(name, choices, cutoff) ==
    LET score == ScoresOf(name, choices)
        m == Nlargest1({x \in DOMAIN score :
                           100 * score[x].num > cutoff * score[x].den}, score)
    IN  IF m # <<>> THEN m[1] ELSE None

FirstOrNone(matches) == IF matches # <<>> THEN matches[1] ELSE None

fuzzy_map(name, choices, cutoff) == FirstOrNone(get_close_matches(name, choices, cutoff))

-----------------------------------------------------------------------------
(* Cells, dictionaries and week buckets.                                   *)

\* a numeric or date cell of a sheet: a value, or missing (NaN / NaT)
Val(v) == [na |-> FALSE, v |-> v]
Missing == [na |-> TRUE, v |-> 0]

\* dict(zip(keys, vals)): a repeated key keeps its last value
DictZip(keys, vals) ==
    [k \in Range(keys) |->
        vals[CHOOSE i \in 1..Len(keys) :
                 keys[i] = k /\ \A j \in (i + 1)..Len(keys) : keys[j] # k]]

\* Series.map(dict): a key the dict does not hold maps to a missing code
MapDict(d, k) == IF k \in DOMAIN d THEN d[k] ELSE NoCode

\* list(dict.keys()): every key once, in order of first insertion
DictKeys(keys) ==
    SelectIdx(keys, {i \in 1..Len(keys) : \A j \in 1..(i - 1) : keys[j] # keys[i]}, 1)

\* weeks that end on Sunday (day 2)
to_period_W_SUN(d) ==
    LET end == d + ((2 - d) % 7) IN [start |-> end - 6, end |-> end]

\* Timestamp.to_period("W-FRI"): the Saturday-to-Friday week holding day d
to_period_W_FRI(d) ==
    LET end == d + ((0 - d) % 7) IN [start |-> end - 6, end |-> end]

Column(df, col) == [i \in 1..Len(df) |-> df[i][col]]

-----------------------------------------------------------------------------
(* convert_number: amounts written as text.                                 *)

\* an amount cell as read_excel hands it over: text, a whole number, or NaN
Txt(s) == [k |-> "str", s |-> s, v |-> 0]
Num(v) == [k |-> "int", s |-> <<>>, v |-> v]
RawNaN == [k |-> "nan", s |-> <<>>, v |-> 0]

\* a float: m / 10^e, or NaN
Float(m, e) == [na |-> FALSE, m |-> m, e |-> e]
FloatNaN == [na |-> TRUE, m |-> 0, e |-> 0]

Digits == <<"0", "1", "2", "3", "4", "5", "6", "7", "8", "9">>
IsDigit(c) == c \in Range(Digits)
DigitVal(c) == (CHOOSE i \in 1..10 : Digits[i] = c) - 1

RECURSIVE Pow10(_)
Pow10(n) == IF n <= 0 THEN 1 ELSE 10 * Pow10(n - 1)

\* the decimal digits of a number >= 0
RECURSIVE DigitsOf(_)
DigitsOf(n) ==
    IF n < 10 THEN <<Digits[n + 1]>> ELSE DigitsOf(n \div 10) \o <<Digits[(n % 10) + 1]>>

RECURSIVE IntOf(_)
IntOf(ds) ==
    IF ds = <<>> THEN 0
    ELSE 10 * IntOf(SubSeq(ds, 1, Len(ds) - 1)) + DigitVal(ds[Len(ds)])

\* str(x)
StrOfCell(x) ==
    CASE x.k = "str" -> x.s
      [] x.k = "int" -> IF x.v < 0 THEN <<"-">> \o DigitsOf(0 - x.v) ELSE DigitsOf(x.v)
      [] x.k = "nan" -> <<"n", "a", "n">>

\* c in s
Contains(s, c) == \E i \in 1..Len(s) : s[i] = c

\* s.replace(c, "")
RECURSIVE Remove(_, _)
Remove(s, c) ==
    IF s = <<>> THEN <<>>
    ELSE (IF Head(s) = c THEN <<>> ELSE <<Head(s)>>) \o Remove(Tail(s), c)

\* s.replace(c, d)
Replace(s, c, d) == [i \in 1..Len(s) |-> IF s[i] = c THEN d ELSE s[i]]

\* the part of a number text after its sign
Unsigned(t) == IF t # <<>> /\ Head(t) \in {"-", "+"} THEN Tail(t) ELSE t

\* digits with at most one point and at least one digit
IsDecimal(u) ==
    /\ \A i \in 1..Len(u) : IsDigit(u[i]) \/ u[i] = "."
    /\ \A i, j \in 1..Len(u) : (u[i] = "." /\ u[j] = ".") => i = j
    /\ \E i \in 1..Len(u) : IsDigit(u[i])

\* the number of digits after the point
Scale(u) == IF Contains(u, ".") THEN Len(u) - (CHOOSE i \in 1..Len(u) : u[i] = ".") ELSE 0

\* float(s) for the texts of the model (no exponent, no "inf"): ValueError is NaN
\* here, as convert_number catches it
float(s) ==
    LET t == Strip(s)
        u == Unsigned(t)
    IN  IF u = <<"n", "a", "n">> THEN FloatNaN
        ELSE IF ~IsDecimal(u) THEN FloatNaN
        ELSE Float((IF t # <<>> /\ Head(t) = "-" THEN -1 ELSE 1) * IntOf(Remove(u, ".")),
                   Scale(u))

\* the cleaned text convert_number hands to float()
CleanNumber(s) ==
    IF Contains(s, ",") /\ Contains(s, ".")
    THEN Replace(Remove(s, "."), ",", ".")
    ELSE Remove(s, ",")

\* convert_number that returns 0 where float() fails
convert_number_zero(x) ==
    LET f == float(CleanNumber(Strip(StrOfCell(x)))) IN IF f.na THEN Float(0, 0) ELSE f

convert_number(x) == float(CleanNumber(Strip(StrOfCell(x))))

\* a parsed amount as a cell in centavos; a finer fraction is cut, the sheets
\* of the model hold amounts that parse to at most two decimals
Amount(f) ==
    IF f.na THEN Missing
    ELSE IF f.e <= 2 THEN Val(f.m * Pow10(2 - f.e))
    ELSE Val(f.m \div Pow10(f.e - 2))

-----------------------------------------------------------------------------
(* Names used by the inputs.                                               *)

PromotorUno == <<"P", "r", "o", "m", "o", "t", "o", "r", " ", "U", "n", "o">>
PromotorDos == <<"P", "r", "o", "m", "o", "t", "o", "r", " ", "D", "o", "s">>
PromotorCuatro ==
    <<"P", "r", "o", "m", "o", "t", "o", "r", " ", "C", "u", "a", "t", "r", "o">>
PromotorTres == <<"P", "r", "o", "m", "o", "t", "o", "r", " ", "T", "r", "e", "s">>
PromotorUnno == <<"P", "r", "o", "m", "o", "t", "o", "r", " ", "U", "n", "n", "o">>
PROMOTOR_DOS == <<"P", "R", "O", "M", "O", "T", "O", "R", " ", "D", "O", "S">>
PROMOTOR_TRES == <<"P", "R", "O", "M", "O", "T", "O", "R", " ", "T", "R", "E", "S">>
PROMOTOR_UNNO == <<"P", "R", "O", "M", "O", "T", "O", "R", " ", "U", "N", "N", "O">>
JoseAcute == <<"J", "o", "s", "e'">>
Jose == <<"J", "o", "s", "e">>
JOSE_ACUTE == <<"J", "O", "S", "E'">>
jose_sp == <<"j", "o", "s", "e", " ">>
Eva == <<"E", "v", "a">>
Eve == <<"E", "v", "e">>
Ev == <<"E", "v">>
Juan == <<"J", "u", "a", "n">>

\* the roster of test_load_data_descuentos
ControlTest ==
    <<[N |-> "P1", Nombre |-> PromotorUno],
      [N |-> "P2", Nombre |-> PromotorDos],
      [N |-> "P4", Nombre |-> PromotorCuatro]>>

\* two promoters whose names differ only by an accent
ControlAccent ==
    <<[N |-> "P1", Nombre |-> JoseAcute], [N |-> "P2", Nombre |-> Jose]>>

ControlMixed ==
    <<[N |-> "P1", Nombre |-> JoseAcute],
      [N |-> "P2", Nombre |-> Eva],
      [N |-> "P3", Nombre |-> Eve]>>

ControlSheets == {<<>>, ControlTest, ControlAccent, ControlMixed}

RawNames ==
    {PromotorUno, PromotorTres, PromotorUnno, PROMOTOR_DOS,
     JOSE_ACUTE, jose_sp, Ev, Juan, NaN}

\* all sequences over S of length at most n
RECURSIVE SeqsUpTo(_, _)
SeqsUpTo(S, n) ==
    IF n = 0 THEN {<<>>}
    ELSE LET shorter == SeqsUpTo(S, n - 1)
         IN  shorter \cup {Append(q, x) : q \in {r \in shorter : Len(r) = n - 1}, x \in S}

\* amounts as the sheets hold them
Txt100 == Txt(<<"1", "0", "0", ".", "0", "0">>)
Txt15 == Txt(<<"1", "5", ".", "0", "0">>)
Txt25 == Txt(<<"2", "5", ".", "0", "0">>)
TxtZero == Txt(<<"0">>)
TxtMinus5 == Txt(<<"-", "5", ".", "0", "0">>)
TxtAbc == Txt(<<"a", "b", "c">>)

CobRowPool ==
    {[Nombre |-> n, Deposito |-> Txt100] : n \in RawNames}
        \cup {[Nombre |-> PromotorUno, Deposito |-> RawNaN],
              [Nombre |-> PromotorUno, Deposito |-> TxtAbc]}

ColRowPool == {[Nombre |-> n] : n \in RawNames}

\* the two sheets of test_load_data_descuentos
DescTest ==
    <<[Promotor |-> PromotorUno, Fecha |-> Val(-1), Descuento |-> Txt(<<"1", "0", ".", "0", "0">>)],
      [Promotor |-> PromotorDos, Fecha |-> Val(6), Descuento |-> TxtZero],
      [Promotor |-> PromotorTres, Fecha |-> Val(-1), Descuento |-> Txt(<<"2", "0", ".", "5", "0">>)],
      [Promotor |-> PromotorUno, Fecha |-> Val(-1), Descuento |-> TxtMinus5]>>

DescTestFuzzy ==
    <<[Promotor |-> PromotorUnno, Fecha |-> Val(-1), Descuento |-> Txt15],
      [Promotor |-> PROMOTOR_DOS, Fecha |-> Val(6), Descuento |-> Txt25]>>

DescRowPool ==
    {[Promotor |-> n, Fecha |-> Val(-1), Descuento |-> Txt15] : n \in RawNames}
        \cup {[Promotor |-> PromotorUno, Fecha |-> Val(6), Descuento |-> TxtZero],
              [Promotor |-> PromotorUno, Fecha |-> Val(-1), Descuento |-> TxtMinus5],
              [Promotor |-> PromotorUno, Fecha |-> Val(-1), Descuento |-> RawNaN],
              [Promotor |-> PromotorUno, Fecha |-> Val(-1), Descuento |-> TxtAbc],
              [Promotor |-> PromotorUno, Fecha |-> Val(6), Descuento |-> Num(15)],
              [Promotor |-> PROMOTOR_DOS, Fecha |-> Missing, Descuento |-> Txt25]}

PagosRowPool ==
    {[PROMOTOR |-> n, SALDO |-> Txt100] : n \in RawNames}
        \cup {[PROMOTOR |-> PromotorUno, SALDO |-> RawNaN]}

Sources == {"cobranza", "colocaciones", "descuentos", "pagos"}

-----------------------------------------------------------------------------
(* main(): loading the sheets and reconciling promoter names to codes.      *)

NoReport == [shown |-> FALSE, names |-> {}]

\* load_data_control: codes are atomic here and already trimmed upper case
LoadControlRows(rows) ==
    [i \in 1..Len(rows) |->
        [N |-> rows[i].N,
         Nombre |-> Strip(rows[i].Nombre),
         Nombre_upper |-> Upper(Strip(Strip(rows[i].Nombre)))]]

LoadControl ==
    /\ pc = "load_control"
    /\ df_control' = LoadControlRows(vas_rows)
    /\ pc' = "cobranza"
    /\ UNCHANGED <<vas_rows, cob_rows, col_rows, desc_rows, pagos_rows, df_cobranza,
                   df_colocaciones, df_desc, df_desc_agg, df_pagos_raw, df_pagos,
                   unmatched_report, fuzzy_calls, fz, fn, loanVars>>

\* load_data_cobranza: "Depósito" goes through convert_number, then rows without
\* a name or an amount are dropped
LoadDataCobranza(rows) ==
    LET dep == [i \in 1..Len(rows) |-> Amount(convert_number(rows[i].Deposito))]
        keep == {i \in 1..Len(rows) : rows[i].Nombre # NaN /\ ~dep[i].na}
    IN  SelectIdx([i \in 1..Len(rows) |->
                      [Nombre |-> StrStripUpper(rows[i].Nombre), Deposito |-> dep[i].v]],
                  keep, 1)

\* main, deposits: normalized lookup, then fuzzy_map for the rows left without code
ReconcileCobranzaRows(loaded, control) ==
    LET norms == [i \in 1..Len(control) |-> normalize_name(control[i].Nombre)]
        name_to_code == DictZip(norms, Column(control, "N"))
        choices == DictKeys(norms)
        Row(r) ==
            LET norm == normalize_name(r.Nombre)
                unmapped == MapDict(name_to_code, norm) = NoCode
                norm2 == IF unmapped THEN fuzzy_map(norm, choices, DefaultCutoff) ELSE norm
            IN  [Nombre |-> r.Nombre, Deposito |-> r.Deposito, Nombre_norm |-> norm2,
                 N |-> MapDict(name_to_code, norm2), fuzzy |-> unmapped]
    IN  [i \in 1..Len(loaded) |-> Row(loaded[i])]

\* the names a reconciled table handed to fuzzy_map
FuzzyCallsOf(df, col) ==
    {[raw |-> df[i][col], arg |-> normalize_name(df[i][col])] :
        i \in {j \in 1..Len(df) : df[j].fuzzy}}

ReconcileCobranza ==
    /\ pc = "cobranza"
    /\ LET df == ReconcileCobranzaRows(LoadDataCobranza(cob_rows), df_control)
       IN  /\ df_cobranza' = df
           /\ fuzzy_calls' = [fuzzy_calls EXCEPT !.cobranza = FuzzyCallsOf(df, "Nombre")]
    /\ pc' = "colocaciones"
    /\ UNCHANGED <<vas_rows, df_control, cob_rows, col_rows, desc_rows, pagos_rows,
                   df_colocaciones, df_desc, df_desc_agg, df_pagos_raw, df_pagos,
                   unmatched_report, fz, fn, loanVars>>

\* load_data_colocaciones, detail table: a missing name becomes the text "NAN"
LoadDataColocaciones(rows) ==
    [i \in 1..Len(rows) |-> [Nombre |-> AsTypeStrStripUpper(rows[i].Nombre)]]

\* main, disbursements: exact upper-case lookup, normalized lookup for the rows
\* left, fuzzy_map for the rows still left
ReconcileColocacionesRows(detail, control) ==
    LET map_nombre_upper_a_N ==
            DictZip(Column(control, "Nombre_upper"), Column(control, "N"))
        norms == [i \in 1..Len(control) |-> normalize_name(control[i].Nombre)]
        control_norm_to_N_map == DictZip(norms, Column(control, "N"))
        choices == DictKeys(norms)
        Row(r) ==
            LET n1 == MapDict(map_nombre_upper_a_N, r.Nombre)
                norm == normalize_name(r.Nombre)
                n2 == IF n1 = NoCode THEN MapDict(control_norm_to_N_map, norm) ELSE n1
                para_fuzzy == n1 = NoCode /\ n2 = NoCode
                n3 == IF para_fuzzy
                      THEN MapDict(control_norm_to_N_map,
                                   fuzzy_map(norm, choices, DefaultCutoff))
                      ELSE n2
            IN  [Nombre |-> r.Nombre, N |-> n3, fuzzy |-> para_fuzzy]
    IN  [i \in 1..Len(detail) |-> Row(detail[i])]

\* main: the names of disbursements without code, shown when there is any
UnmatchedColocaciones(df) ==
    LET names == {df[i].Nombre : i \in {j \in 1..Len(df) : df[j].N = NoCode}}
    IN  IF names = {} THEN NoReport ELSE [shown |-> TRUE, names |-> names]

ReconcileColocaciones ==
    /\ pc = "colocaciones"
    /\ LET df == ReconcileColocacionesRows(LoadDataColocaciones(col_rows), df_control)
       IN  /\ df_colocaciones' = df
           /\ fuzzy_calls' =
                  [fuzzy_calls EXCEPT !.colocaciones = FuzzyCallsOf(df, "Nombre")]
           /\ unmatched_report' =
                  [unmatched_report EXCEPT !.colocaciones = UnmatchedColocaciones(df)]
    /\ pc' = "descuentos"
    /\ UNCHANGED <<vas_rows, df_control, cob_rows, col_rows, desc_rows, pagos_rows,
                   df_cobranza, df_desc, df_desc_agg, df_pagos_raw, df_pagos,
                   fz, fn, loanVars>>

\* sum of column col over the rows of df whose index is in idx
SumWhere(df, idx, col) == SumSeq(Column(SelectIdx(df, idx, 1), col))

\* the rows whose discount parsed to a number, whatever its sign
ParsedDescuentos(rows) ==
    LET num == [i \in 1..Len(rows) |-> Amount(convert_number(rows[i].Descuento))]
    IN  SelectIdx([i \in 1..Len(rows) |->
                      [Promotor |-> AsTypeStrStripUpper(rows[i].Promotor),
                       Fecha |-> rows[i].Fecha,
                       Descuento_Num_Temp |-> num[i].v]],
                  {i \in 1..Len(rows) : ~num[i].na}, 1)

\* load_data_descuentos up to its filter: the rows whose discount parsed to a
\* number greater than 0
PositiveDescuentos(rows) ==
    LET num == [i \in 1..Len(rows) |-> Amount(convert_number(rows[i].Descuento))]
        keep == {i \in 1..Len(rows) : ~num[i].na /\ num[i].v > 0}
    IN  SelectIdx([i \in 1..Len(rows) |->
                      [Promotor |-> AsTypeStrStripUpper(rows[i].Promotor),
                       Fecha |-> rows[i].Fecha,
                       Descuento_Num_Temp |-> num[i].v]],
                  keep, 1)

\* load_data_descuentos, mapping of "Promotor" to a code: exact upper-case lookup,
\* then fuzzy_map on the normalized name for the rows left without code
MapDescuentosRows(df, control) ==
    LET name_to_code == DictZip(Column(control, "Nombre_upper"), Column(control, "N"))
        norms == [i \in 1..Len(control) |-> normalize_name(control[i].Nombre)]
        control_norm_to_N_map == DictZip(norms, Column(control, "N"))
        choices_fuzzy == DictKeys(norms)
        Row(r) ==
            LET n1 == MapDict(name_to_code, r.Promotor)
                unmapped == control # <<>> /\ n1 = NoCode
                n2 == IF unmapped
                      THEN MapDict(control_norm_to_N_map,
                                   fuzzy_map(normalize_name(r.Promotor), choices_fuzzy,
                                             DefaultCutoff))
                      ELSE n1
            IN  [Promotor |-> r.Promotor, Fecha |-> r.Fecha,
                 Descuento_Num_Temp |-> r.Descuento_Num_Temp,
                 CodigoPromotor |-> IF control = <<>> THEN NoCode ELSE n2,
                 fuzzy |-> unmapped]
    IN  [i \in 1..Len(df) |-> Row(df[i])]

\* load_data_descuentos, aggregation: rows with a code and a date, summed by
\* (code, week)
AggDescuentos(df) ==
    LET con_N == {i \in 1..Len(df) : df[i].CodigoPromotor # NoCode /\ ~df[i].Fecha.na}
        Key(i) == <<df[i].CodigoPromotor, to_period_W_FRI(df[i].Fecha.v)>>
    IN  {[N |-> df[i].CodigoPromotor,
          Semana |-> to_period_W_FRI(df[i].Fecha.v),
          Descuento_Renovacion |->
              SumWhere(df, {j \in con_N : Key(j) = Key(i)}, "Descuento_Num_Temp")] :
            i \in con_N}

LoadDataDescuentos ==
    /\ pc = "descuentos"
    /\ LET df == MapDescuentosRows(PositiveDescuentos(desc_rows), df_control)
       IN  /\ df_desc' = df
           /\ df_desc_agg' = AggDescuentos(df)
           /\ fuzzy_calls' =
                  [fuzzy_calls EXCEPT !.descuentos = FuzzyCallsOf(df, "Promotor")]
    /\ pc' = "pagos"
    /\ UNCHANGED <<vas_rows, df_control, cob_rows, col_rows, desc_rows, pagos_rows,
                   df_cobranza, df_colocaciones, df_pagos_raw, df_pagos,
                   unmatched_report, fz, fn, loanVars>>

\* load_data_pagos: rows without a name or a balance are dropped
LoadDataPagos(rows) ==
    LET saldo == [i \in 1..Len(rows) |-> Amount(convert_number(rows[i].SALDO))]
        keep == {i \in 1..Len(rows) : rows[i].PROMOTOR # NaN /\ ~saldo[i].na}
    IN  SelectIdx([i \in 1..Len(rows) |->
                      [PROMOTOR |-> StrStripUpper(rows[i].PROMOTOR), SALDO |-> saldo[i].v]],
                  keep, 1)

\* main, expected balances: normalized lookup, then fuzzy_map for the rows left
ReconcilePagosRows(loaded, control) ==
    LET norms == [i \in 1..Len(control) |-> normalize_name(control[i].Nombre)]
        name_to_code == DictZip(norms, Column(control, "N"))
        choices == norms
        Row(r) ==
            LET norm == normalize_name(r.PROMOTOR)
                unmapped == MapDict(name_to_code, norm) = NoCode
                norm2 == IF unmapped THEN fuzzy_map(norm, choices, DefaultCutoff) ELSE norm
            IN  [PROMOTOR |-> r.PROMOTOR, SALDO |-> r.SALDO, PROMOTOR_norm |-> norm2,
                 N |-> MapDict(name_to_code, norm2), fuzzy |-> unmapped]
    IN  [i \in 1..Len(loaded) |-> Row(loaded[i])]

\* main: balances of the rows with a code, summed by code
GroupPagos(df) ==
    LET con_N == {i \in 1..Len(df) : df[i].N # NoCode}
    IN  {[N |-> df[i].N,
          SALDO |-> SumWhere(df, {j \in con_N : df[j].N = df[i].N}, "SALDO")] :
            i \in con_N}

ReconcilePagos ==
    /\ pc = "pagos"
    /\ LET df == ReconcilePagosRows(LoadDataPagos(pagos_rows), df_control)
       IN  /\ df_pagos_raw' = df
           /\ df_pagos' = GroupPagos(df)
           /\ fuzzy_calls' = [fuzzy_calls EXCEPT !.pagos = FuzzyCallsOf(df, "PROMOTOR")]
    /\ pc' = "done"
    /\ UNCHANGED <<vas_rows, df_control, cob_rows, col_rows, desc_rows, pagos_rows,
                   df_cobranza, df_colocaciones, df_desc, df_desc_agg,
                   unmatched_report, fz, fn, loanVars>>

-----------------------------------------------------------------------------
(* fuzzy_map as a function of its arguments, and the credit-detail tab stay *)
(* idle while main() loads.                                                 *)

FzIdle == [pc |-> "idle", name |-> <<>>, choices |-> <<>>, cutoff |-> DefaultCutoff,
           result |-> None]

FnIdle == [pc |-> "idle"]

LoanIdle ==
    /\ hoy = 0
    /\ df_col_prom = <<>>
    /\ df_cob_prom = <<>>
    /\ filas = <<>>

MainIdle ==
    /\ pc = "idle"
    /\ vas_rows = <<>>
    /\ df_control = <<>>
    /\ cob_rows = <<>>
    /\ col_rows = <<>>
    /\ desc_rows = <<>>
    /\ pagos_rows = <<>>
    /\ df_cobranza = <<>>
    /\ df_colocaciones = <<>>
    /\ df_desc = <<>>
    /\ df_desc_agg = {}
    /\ df_pagos_raw = <<>>
    /\ df_pagos = {}
    /\ unmatched_report = [s \in Sources |-> NoReport]
    /\ fuzzy_calls = [s \in Sources |-> {}]

\* the uploaded files: a roster, and rows in one of the four source sheets
Init ==
    /\ pc = "load_control"
    /\ vas_rows \in ControlSheets
    /\ \E src \in Sources :
        /\ cob_rows \in IF src = "cobranza" THEN SeqsUpTo(CobRowPool, MaxRows) ELSE {<<>>}
        /\ col_rows \in IF src = "colocaciones" THEN SeqsUpTo(ColRowPool, MaxRows)
                        ELSE {<<>>}
        /\ desc_rows \in IF src = "descuentos"
                         THEN SeqsUpTo(DescRowPool, MaxRows) \cup {DescTest, DescTestFuzzy}
                         ELSE {<<>>}
        /\ pagos_rows \in IF src = "pagos" THEN SeqsUpTo(PagosRowPool, MaxRows) ELSE {<<>>}
    /\ df_control = <<>>
    /\ df_cobranza = <<>>
    /\ df_colocaciones = <<>>
    /\ df_desc = <<>>
    /\ df_desc_agg = {}
    /\ df_pagos_raw = <<>>
    /\ df_pagos = {}
    /\ unmatched_report = [s \in Sources |-> NoReport]
    /\ fuzzy_calls = [s \in Sources |-> {}]
    /\ fz = FzIdle
    /\ fn = FnIdle
    /\ LoanIdle

Next ==
    \/ LoadControl
    \/ ReconcileCobranza
    \/ ReconcileColocaciones
    \/ LoadDataDescuentos
    \/ ReconcilePagos

Spec == Init /\ [][Next]_vars

-----------------------------------------------------------------------------
(* fuzzy_map as a function of its arguments.                                *)

MaxNameLen == 3

FuzzyLetters == {"A", "E"}

FuzzyNames == SeqsUpTo(FuzzyLetters, MaxNameLen)

FuzzyChoicePool == {<<"A", "E">>, <<"A", "E", "A">>, <<"A", "E", "E">>, <<"E", "A">>}

\* the cutoffs of test_fuzzy_map and the default, in hundredths
Cutoffs == {70, 80, 95}

InitFuzzy ==
    /\ MainIdle
    /\ LoanIdle
    /\ fn = FnIdle
    /\ fz \in {[pc |-> "call", name |-> n, choices |-> c, cutoff |-> k, result |-> None] :
                  n \in FuzzyNames, c \in SeqsUpTo(FuzzyChoicePool, MaxChoices),
                  k \in Cutoffs}

FuzzyMapCall ==
    /\ fz.pc = "call"
    /\ fz' = [fz EXCEPT !.pc = "returned",
                        !.result = fuzzy_map(fz.name, fz.choices, fz.cutoff)]
    /\ UNCHANGED <<mainVars, fn, loanVars>>

NextFuzzy == FuzzyMapCall

SpecFuzzy == InitFuzzy /\ [][NextFuzzy]_vars

-----------------------------------------------------------------------------
(* convert_number and load_data_cobranza called on their own.               *)

MaxTextLen == 3

\* the characters of the amount texts tried at every length
TextChars == {"1", "5", ",", ".", "-", " ", "a"}

\* whole parts and centavos of the amounts written out in both layouts
WholeParts == {0, 1, 9, 10, 99, 100, 234, 999, 1000, 1234, 9999, 12345, 100000, 1234567}
Amounts == {100 * w + c : w \in WholeParts, c \in 0..99}

\* three digits of a group after the first
Pad3(n) == <<Digits[(n \div 100) + 1], Digits[((n \div 10) % 10) + 1], Digits[(n % 10) + 1]>>

\* the whole part in groups of three digits
RECURSIVE Grouped(_, _)
Grouped(n, sep) ==
    IF n < 1000 THEN DigitsOf(n)
    ELSE Grouped(n \div 1000, sep) \o <<sep>> \o Pad3(n % 1000)

\* an amount of a centavos written with sep between groups and dec before the
\* two decimals
FormatAmount(a, sep, dec) ==
    Grouped(a \div 100, sep) \o <<dec, Digits[((a % 100) \div 10) + 1], Digits[(a % 10) + 1]>>

FormatUS(a) == FormatAmount(a, ",", ".")
FormatEU(a) == FormatAmount(a, ".", ",")

RawCells ==
    {Txt(t) : t \in SeqsUpTo(TextChars, MaxTextLen)}
        \cup {Num(v) : v \in {-5, 0, 123}} \cup {RawNaN, TxtAbc, Txt100}

FnConvert(layout, a, x, sheet) ==
    [pc |-> "call", layout |-> layout, a |-> a, x |-> x, result |-> FloatNaN,
     sheet |-> sheet, loaded |-> <<>>]

InitConvert ==
    /\ MainIdle
    /\ LoanIdle
    /\ fz = FzIdle
    /\ fn \in {FnConvert("us", a, Txt(FormatUS(a)), <<>>) : a \in Amounts}
           \cup {FnConvert("eu", a, Txt(FormatEU(a)), <<>>) : a \in Amounts}
           \cup {FnConvert("raw", 0, x, <<>>) : x \in RawCells}
           \cup {FnConvert("sheet", 0, RawNaN, sh) : sh \in SeqsUpTo(CobRowPool, MaxRows)}

ConvertNumberCall ==
    /\ fn.pc = "call"
    /\ fn' = [fn EXCEPT !.pc = "converted", !.result = convert_number(fn.x)]
    /\ UNCHANGED <<mainVars, fz, loanVars>>

LoadDataCobranzaCall ==
    /\ fn.pc = "converted"
    /\ fn' = [fn EXCEPT !.pc = "loaded", !.loaded = LoadDataCobranza(fn.sheet)]
    /\ UNCHANGED <<mainVars, fz, loanVars>>

NextConvert == ConvertNumberCall \/ LoadDataCobranzaCall

SpecConvert == InitConvert /\ [][NextConvert]_vars

-----------------------------------------------------------------------------
(* normalize_name called on its own result.                                 *)

MaxNormLen == 3

NormChars == {" ", "N", "a", "e'", "E'", "ss", "fi", "2^", "o~"}

InitNormalize ==
    /\ MainIdle
    /\ LoanIdle
    /\ fz = FzIdle
    /\ fn \in {[pc |-> "call", s |-> t, once |-> <<>>, twice |-> <<>>] :
                  t \in SeqsUpTo(NormChars, MaxNormLen)}

NormalizeNameCall ==
    /\ fn.pc = "call"
    /\ fn' = [fn EXCEPT !.pc = "once", !.once = normalize_name(fn.s)]
    /\ UNCHANGED <<mainVars, fz, loanVars>>

NormalizeNameAgain ==
    /\ fn.pc = "once"
    /\ fn' = [fn EXCEPT !.pc = "twice", !.twice = normalize_name(fn.once)]
    /\ UNCHANGED <<mainVars, fz, loanVars>>

NextNormalize == NormalizeNameCall \/ NormalizeNameAgain

SpecNormalize == InitNormalize /\ [][NextNormalize]_vars

-----------------------------------------------------------------------------
(* The week of two transaction dates.                                       *)

MaxWeekDay == 15

InitWeek ==
    /\ MainIdle
    /\ LoanIdle
    /\ fz = FzIdle
    /\ fn \in {[pc |-> "call", d1 |-> a, d2 |-> b, Semana1 |-> Missing, Semana2 |-> Missing] :
                  a, b \in (0 - MaxWeekDay)..MaxWeekDay}

\* df_cobranza["Semana"] = df_cobranza["Fecha Transacción"].dt.to_period("W-FRI")
ToPeriodCall ==
    /\ fn.pc = "call"
    /\ fn' = [fn EXCEPT !.pc = "returned",
                        !.Semana1 = to_period_W_FRI(fn.d1),
                        !.Semana2 = to_period_W_FRI(fn.d2)]
    /\ UNCHANGED <<mainVars, fz, loanVars>>

NextWeek == ToPeriodCall

SpecWeek == InitWeek /\ [][NextWeek]_vars

-----------------------------------------------------------------------------
(* The ranking tab and the cumulative evaluation of integracion_app2.0.      *)
(* Targets are df_metas_summary: one row per promoter code and week.  The    *)
(* rounding of the percentages takes a half upwards; the order of the rows   *)
(* of a table is left out.                                                   *)

MaxWeeks == 4

\* the k-th week after the one that ends on day 0
Week(k) == to_period_W_FRI(7 * k)

RECURSIVE SumMetas(_)
SumMetas(S) ==
    IF S = {} THEN 0 ELSE LET r == CHOOSE x \in S : TRUE IN r.Meta + SumMetas(S \ {r})

\* groupby("Promotor")["Meta"].sum()
MetasGroup(df) ==
    [p \in {r.Promotor : r \in df} |-> SumMetas({r \in df : r.Promotor = p})]

\* groupby("Nombre Promotor")["Depósito"].sum()
CobGroup(cob) ==
    [n \in {cob[i].Nombre : i \in 1..Len(cob)} |->
        SumWhere(cob, {i \in 1..Len(cob) : cob[i].Nombre = n}, "Deposito")]

\* code_to_name = dict(zip(N, Nombre))
CodeToName(control) == DictZip(Column(control, "N"), Column(control, "Nombre"))

\* name_to_code = {v.upper(): k for k, v in code_to_name.items()}
NameToCode(control) ==
    LET codes == DictKeys(Column(control, "N"))
    IN  DictZip([i \in 1..Len(codes) |-> Upper(CodeToName(control)[codes[i]])], codes)

\* round(cob / metas * 100, 2) in hundredths of a percent, 0 where metas is 0
Cumplimiento(cob, metas) ==
    IF metas = 0 THEN 0 ELSE (2 * 10000 * cob + metas) \div (2 * metas)

\* merge(..., on="Promotor", how="outer").fillna(0) and the columns added to it:
\* a deposit name without code gets the key 0
RankingRows(metas_group, cob_group, control) ==
    LET Code(n) == MapDict(NameToCode(control), n)
        Row(N, metas, cob) ==
            [N |-> N,
             Nombre |-> IF N \in DOMAIN CodeToName(control)
                        THEN CodeToName(control)[N] ELSE NaN,
             Metas_sin_ultima |-> metas,
             Cobranza_total |-> cob,
             Cumplimiento |-> Cumplimiento(cob, metas)]
    IN  {Row(p, metas_group[p], 0) :
            p \in {q \in DOMAIN metas_group : \A n \in DOMAIN cob_group : Code(n) # q}}
        \cup {Row(IF Code(n) = NoCode THEN "0" ELSE Code(n),
                  IF Code(n) \in DOMAIN metas_group THEN metas_group[Code(n)] ELSE 0,
                  cob_group[n]) : n \in DOMAIN cob_group}

\* build_ranking that leaves every target in
build_ranking_all(control, df_metas, df_cob) ==
    RankingRows(MetasGroup(df_metas), CobGroup(df_cob), control)

\* build_ranking of the module: the rows of a promoter's greatest week are left out
build_ranking(control, df_metas, df_cob) ==
    LET max_semana_prom(p) ==
            CHOOSE w \in {r.Semana : r \in df_metas} :
                /\ \E r \in df_metas : r.Promotor = p /\ r.Semana = w
                /\ \A r \in df_metas : r.Promotor = p => r.Semana.end <= w.end
    IN  RankingRows(MetasGroup({r \in df_metas : r.Semana # max_semana_prom(r.Promotor)}),
                    CobGroup(df_cob), control)

\* build_ranking nested in main: sorted by promoter and week, the last row of
\* every promoter is left out
build_ranking_main(control, df_metas, df_cob) ==
    RankingRows(MetasGroup({r \in df_metas :
                               \E later \in df_metas :
                                   /\ later.Promotor = r.Promotor
                                   /\ later.Semana.end > r.Semana.end}),
                CobGroup(df_cob), control)

\* the rows of weeks that ended before the cutoff day began
MetasBefore(df, cutoff) == {r \in df : r.Semana.end < cutoff}
CobBefore(cob, cutoff) ==
    SelectIdx(cob, {i \in 1..Len(cob) : cob[i].Semana.end < cutoff}, 1)

\* cumulative evaluation: targets and deposits up to the selected week, by name
CumulativeRows(control, df_metas, cob, selected_week) ==
    LET promotores_dict == CodeToName(control)
        meta_cum == {r \in df_metas :
                        /\ r.Semana.end <= selected_week.end
                        /\ r.Promotor \in DOMAIN promotores_dict}
        NameOf(r) == Upper(promotores_dict[r.Promotor])
        meta_names == {NameOf(r) : r \in meta_cum}
        cob_group == CobGroup(SelectIdx(cob, {i \in 1..Len(cob) :
                                                 cob[i].Semana.end <= selected_week.end}, 1))
        Meta(n) == SumMetas({r \in meta_cum : NameOf(r) = n})
        Dep(n) == IF n \in DOMAIN cob_group THEN cob_group[n] ELSE 0
    IN  {[Nombre_Promotor |-> n, Meta |-> Meta(n), Deposito |-> Dep(n),
          Diferencia |-> Dep(n) - Meta(n)] : n \in meta_names \cup DOMAIN cob_group}

ControlRanking == <<[N |-> "P1", Nombre |-> Eva], [N |-> "P2", Nombre |-> Eve]>>

MetaValues == {100000, 250000}

\* the targets of P1: any weeks, any values; those of P2: none, one week or two
MetasP1 ==
    {{[Promotor |-> "P1", Semana |-> Week(k), Meta |-> f[k]] : k \in W} :
        W \in SUBSET (1..MaxWeeks), f \in [1..MaxWeeks -> MetaValues]}
MetasP2 ==
    {{}, {[Promotor |-> "P2", Semana |-> Week(2), Meta |-> 100000]},
     {[Promotor |-> "P2", Semana |-> Week(1), Meta |-> 100000],
      [Promotor |-> "P2", Semana |-> Week(2), Meta |-> 250000]}}

CobTables ==
    {<<>>,
     <<[Nombre |-> Upper(Eva), Semana |-> Week(1), Deposito |-> 50000]>>,
     <<[Nombre |-> Upper(Eva), Semana |-> Week(1), Deposito |-> 50000],
       [Nombre |-> Upper(Eve), Semana |-> Week(3), Deposito |-> 100000]>>}

InitRanking ==
    /\ MainIdle
    /\ LoanIdle
    /\ fz = FzIdle
    /\ fn \in {[pc |-> "call", control |-> ControlRanking, metas |-> m1 \cup m2,
                cob |-> c, cutoff |-> 7 * k + 3, selected_week |-> Week(w),
                ranking |-> {}, ranking_module |-> {}, cum |-> {}] :
                  m1 \in MetasP1, m2 \in MetasP2, c \in CobTables,
                  k \in {2, MaxWeeks}, w \in {1, MaxWeeks}}

\* tab "Ranking de Promotores"
RankingTab ==
    /\ fn.pc = "call"
    /\ fn' = [fn EXCEPT !.pc = "ranked",
                        !.ranking = build_ranking_main(fn.control,
                                                       MetasBefore(fn.metas, fn.cutoff),
                                                       CobBefore(fn.cob, fn.cutoff))]
    /\ UNCHANGED <<mainVars, fz, loanVars>>

\* the module's build_ranking called with the same tables
BuildRankingCall ==
    /\ fn.pc = "ranked"
    /\ fn' = [fn EXCEPT !.pc = "ranked_module",
                        !.ranking_module = build_ranking(fn.control,
                                                         MetasBefore(fn.metas, fn.cutoff),
                                                         CobBefore(fn.cob, fn.cutoff))]
    /\ UNCHANGED <<mainVars, fz, loanVars>>

\* tab "Incumplimiento por Semana", cumulative evaluation
CumulativeTab ==
    /\ fn.pc = "ranked_module"
    /\ fn' = [fn EXCEPT !.pc = "cumulated",
                        !.cum = CumulativeRows(fn.control, fn.metas, fn.cob,
                                               fn.selected_week)]
    /\ UNCHANGED <<mainVars, fz, loanVars>>

NextRanking == RankingTab \/ BuildRankingCall \/ CumulativeTab

SpecRanking == InitRanking /\ [][NextRanking]_vars

-----------------------------------------------------------------------------
(* Floating point: the amounts of the credit-detail tab are float64.  A     *)
(* double is [neg, m]: its sign and its magnitude in units of 2^-53, written *)
(* <<high, middle, low>> with limbs of 24 bits.  Every double of magnitude   *)
(* 0 or 0.5 and more is such a multiple; the magnitudes stay below 2^13.     *)

LimbBase == 4096 * 4096

\* the element of a one-element set: {F(v) : v \in {e}} computes e once
The(S) == CHOOSE x \in S : TRUE

RECURSIVE Pow2(_)
Pow2(n) == IF n <= 0 THEN 1 ELSE 2 * Pow2(n - 1)

RECURSIVE BitLen(_)
BitLen(x) == IF x = 0 THEN 0 ELSE 1 + BitLen(x \div 2)

MagZero == <<0, 0, 0>>

\* the limbs after carries and borrows
Carry(h, m, l) ==
    <<h + ((m + (l \div LimbBase)) \div LimbBase),
      (m + (l \div LimbBase)) % LimbBase,
      l % LimbBase>>

MagLess(a, b) ==
    \/ a[1] < b[1]
    \/ a[1] = b[1] /\ a[2] < b[2]
    \/ a[1] = b[1] /\ a[2] = b[2] /\ a[3] < b[3]

MagAdd(a, b) == Carry(a[1] + b[1], a[2] + b[2], a[3] + b[3])
MagSub(a, b) == Carry(a[1] - b[1], a[2] - b[2], a[3] - b[3])
MagMul(a, k) == Carry(a[1] * k, a[2] * k, a[3] * k)

MagBits(a) ==
    IF a[1] > 0 THEN 48 + BitLen(a[1])
    ELSE IF a[2] > 0 THEN 24 + BitLen(a[2])
    ELSE BitLen(a[3])

\* round to nearest, ties to even, at the bit of weight p; r is what lies below
\* that bit and frac tells what lies below the last limb: 0 nothing, 1 less
\* than half a unit, 2 half a unit, 3 more
RoundAt(a, p, r, frac) ==
    IF \/ 2 * r + (IF frac > 0 THEN 1 ELSE 0) > p
       \/ 2 * r = p /\ frac = 0 /\ (a[3] \div p) % 2 = 1
       \/ p = 1 /\ (frac = 3 \/ (frac = 2 /\ a[3] % 2 = 1))
    THEN Carry(a[1], a[2], a[3] - r + p)
    ELSE <<a[1], a[2], a[3] - r>>

RoundBits(a, shift, frac) == The({RoundAt(a, p, a[3] % p, frac) : p \in {Pow2(shift)}})

\* the nearest magnitude with 53 significant bits
Round53(a, frac) == The({RoundBits(v, MagBits(v) - 53, frac) : v \in {a}})

Double(neg, m) == The({[neg |-> neg /\ v # MagZero, m |-> v] : v \in {m}})

FloatZero == Double(FALSE, MagZero)

\* the quotient by 100 of the hundredths c scaled by 2^53, then rounded:
\* float("1234.56"), and the number Excel holds for a cell showing 1234.56
DivHundred(h, m1, l2) ==
    Round53(<<h \div 100, m1 \div 100, l2 \div 100>>,
            IF l2 % 100 = 0 THEN 0 ELSE IF l2 % 100 < 50 THEN 1
            ELSE IF l2 % 100 = 50 THEN 2 ELSE 3)

MagOfCents(c) ==
    The({DivHundred(32 * c, m1, (m1 % 100) * LimbBase) :
            m1 \in {((32 * c) % 100) * LimbBase}})

Float64(c) == Double(c < 0, MagOfCents(IF c < 0 THEN 0 - c ELSE c))

FloatNeg(x) == Double(~x.neg, x.m)

FloatLess(x, y) ==
    IF x.neg # y.neg THEN x.neg
    ELSE IF x.neg THEN MagLess(y.m, x.m) ELSE MagLess(x.m, y.m)

FloatSum(x, y) ==
    IF x.neg = y.neg THEN Double(x.neg, Round53(MagAdd(x.m, y.m), 0))
    ELSE IF MagLess(x.m, y.m) THEN Double(y.neg, Round53(MagSub(y.m, x.m), 0))
    ELSE Double(x.neg, Round53(MagSub(x.m, y.m), 0))

\* x + y
FloatAdd(x, y) == The({FloatSum(u, v) : u \in {x}, v \in {y}})

\* x - y
FloatSub(x, y) == FloatAdd(x, FloatNeg(y))

\* k * x for an int k >= 0
FloatMulInt(k, x) == The({Double(v.neg, Round53(MagMul(v.m, k), 0)) : v \in {x}})

\* the largest k * 2^j with d * k * 2^j <= r, for d * k <= r
RECURSIVE TopPower(_, _, _)
TopPower(r, d, k) == IF MagLess(r, MagMul(d, 2 * k)) THEN k ELSE TopPower(r, d, 2 * k)

\* long division: the multiples d * k, d * k / 2, ..., d are taken off r
RECURSIVE LongDiv(_, _, _, _)
LongDiv(r, d, k, q) ==
    IF k = 0 THEN [q |-> q, r |-> r]
    ELSE IF MagLess(r, MagMul(d, k)) THEN LongDiv(r, d, k \div 2, q)
    ELSE The({LongDiv(v, d, k \div 2, q + k) : v \in {MagSub(r, MagMul(d, k))}})

\* quotient and remainder of two magnitudes, d > 0 and a quotient below 128
QuoRem(r, d) ==
    IF MagLess(r, d) THEN [q |-> 0, r |-> r]
    ELSE The({LongDiv(r, d, k, 0) : k \in {TopPower(r, d, 1)}})

\* int(x // y) for y > 0
FloorDivOf(x, qr) ==
    The({IF ~x.neg THEN v.q ELSE IF v.r = MagZero THEN 0 - v.q ELSE 0 - v.q - 1 :
            v \in {qr}})

FloorDiv(x, y) ==
    The({FloorDivOf(u, QuoRem(u.m, v.m)) : u \in {x}, v \in {y}})

\* x % y for y > 0: fmod, then + y when the signs differ
FloatModOf(x, y, qr) ==
    The({IF ~x.neg \/ r = MagZero THEN Double(FALSE, r) ELSE FloatAdd(Double(TRUE, r), y) :
            r \in {qr.r}})

FloatMod(x, y) ==
    The({FloatModOf(u, v, QuoRem(u.m, v.m)) : u \in {x}, v \in {y}})

-----------------------------------------------------------------------------
(* The credit-detail tab: status of every loan of the selected promoter.    *)

MaxPagos == 14

\* a contract id cell: text, a number, or missing
ContratoStr(v) == [t |-> "str", v |-> v]
ContratoInt(v) == [t |-> "int", v |-> v]
ContratoNaN == [t |-> "nan", v |-> 0]

\* pandas ==: a missing id equals nothing, a number never equals a text
ContratoEq(a, b) == a.t # "nan" /\ b.t # "nan" /\ a = b

\* pag_debidos that counts the elapsed weeks only
PagDebidos_no_first(today, fecha_fp) ==
    Min2(MaxPagos, Max2(0, (today - fecha_fp) \div 7))

\* completos without the cap at 14
Completos_uncapped(total_dep, ps) ==
    IF FloatLess(FloatZero, ps) THEN FloorDiv(total_dep, ps) ELSE 0

\* vencido_monto without the floor at 0
VencidoMonto_signed(pag_debidos, ps, total_dep) ==
    FloatSub(FloatMulInt(pag_debidos, ps), total_dep)

\* the status with "Al corriente" tested before "Liquidado"
Estatus_swapped(completos, pag_debidos, today, fecha_fp) ==
    IF completos >= pag_debidos THEN "Al corriente"
    ELSE IF completos >= MaxPagos THEN "Liquidado"
    ELSE IF today < fecha_fp + 13 * 7 THEN "Atrasado"
    ELSE "Vencido"

\* pag_debidos counted from the distance to the first payment date
PagDebidos_abs(today, fecha_fp) ==
    Min2(MaxPagos, (IF today < fecha_fp THEN fecha_fp - today ELSE today - fecha_fp) \div 7 + 1)

\* pag_debidos without the cap at 14
PagDebidos_uncapped(today, fecha_fp) == Max2(0, (today - fecha_fp) \div 7) + 1

\* adelantados counting the payments behind
Adelantados_behind(completos, pag_debidos) == Max2(0, pag_debidos - completos)

\* the credit falling due a week later
FechaVencCredito_14(fecha_fp) == fecha_fp + 14 * 7

\* weeks_elapsed = max(0, (hoy - fecha_fp).days // 7)
WeeksElapsed(today, fecha_fp) == Max2(0, (today - fecha_fp) \div 7)

\* pag_debidos = min(14, weeks_elapsed + 1)
PagDebidos(today, fecha_fp) == Min2(MaxPagos, WeeksElapsed(today, fecha_fp) + 1)

\* pagos["Deposito"].sum() over the first n rows of df_cob_prom: the deposits
\* whose contract equals the loan's, added one after the other
RECURSIVE SumDeposito(_, _, _)
SumDeposito(cob, contrato, n) ==
    IF n = 0 THEN FloatZero
    ELSE IF ContratoEq(cob[n].Contrato, contrato)
         THEN FloatAdd(SumDeposito(cob, contrato, n - 1), Float64(cob[n].Deposito))
         ELSE SumDeposito(cob, contrato, n - 1)

\* total_dep
TotalDep(cob, contrato) == SumDeposito(cob, contrato, Len(cob))

\* completos = min(int(total_dep // ps), 14) when ps > 0, else 0
Completos(total_dep, ps) ==
    IF FloatLess(FloatZero, ps) THEN Min2(FloorDiv(total_dep, ps), MaxPagos) ELSE 0

\* resto = total_dep % ps when ps > 0, else 0
Resto(total_dep, ps) ==
    IF FloatLess(FloatZero, ps) THEN FloatMod(total_dep, ps) ELSE FloatZero

\* incompletos = 1 if 0 < resto < ps else 0
Incompletos(resto, ps) ==
    IF FloatLess(FloatZero, resto) /\ FloatLess(resto, ps) THEN 1 ELSE 0

\* max(0, x)
Max0(x) == IF FloatLess(FloatZero, x) THEN x ELSE FloatZero

\* vencido_monto = max(0, pag_debidos * ps - total_dep)
VencidoMonto(pag_debidos, ps, total_dep) ==
    Max0(FloatSub(FloatMulInt(pag_debidos, ps), total_dep))

\* adelantados = max(0, completos - pag_debidos)
Adelantados(completos, pag_debidos) == Max2(0, completos - pag_debidos)

\* fecha_venc_credito = fecha_fp + pd.Timedelta(weeks=13)
FechaVencCredito(fecha_fp) == fecha_fp + 13 * 7

Estatus(completos, pag_debidos, today, fecha_fp) ==
    IF completos >= MaxPagos THEN "Liquidado"
    ELSE IF completos >= pag_debidos THEN "Al corriente"
    ELSE IF today < FechaVencCredito(fecha_fp) THEN "Atrasado"
    ELSE "Vencido"

\* the row appended to filas for loan number i
Fila(i, cred, ps, total_dep, pag_debidos, completos, today) ==
    [cred |-> i,
     Contrato |-> cred.Contrato,
     PagosDebidos |-> pag_debidos,
     PagosCompletos |-> completos,
     PagosIncompletos |-> Incompletos(Resto(total_dep, ps), ps),
     SaldoVencido |-> VencidoMonto(pag_debidos, ps, total_dep),
     PagosAdelantados |-> Adelantados(completos, pag_debidos),
     Estatus |-> Estatus(completos, pag_debidos, today, cred.FechaPrimerPago.v)]

\* one pass of the loop for a loan with its installment and its deposits
FilaDe(i, cred, ps, total_dep, today) ==
    The({Fila(i, cred, ps, total_dep, pag_debidos, completos, today) :
            pag_debidos \in {PagDebidos(today, cred.FechaPrimerPago.v)},
            completos \in {Completos(total_dep, ps)}})

\* the loop over df_col_prom: a loan without first-payment date is skipped
RECURSIVE Filas(_, _, _, _)
Filas(col, cob, today, i) ==
    IF i > Len(col) THEN <<>>
    ELSE (IF col[i].FechaPrimerPago.na THEN <<>>
          ELSE <<The({FilaDe(i, col[i], ps, total_dep, today) :
                         ps \in {Float64(col[i].PS)},
                         total_dep \in {TotalDep(cob, col[i].Contrato)}})>>)
         \o Filas(col, cob, today, i + 1)

Contrato123 == ContratoStr(123)

LoanPool ==
    {[Contrato |-> Contrato123, PS |-> 10000, FechaPrimerPago |-> Val(0)],
     [Contrato |-> Contrato123, PS |-> 15050, FechaPrimerPago |-> Val(0)],
     [Contrato |-> Contrato123, PS |-> 10010, FechaPrimerPago |-> Val(0)],
     [Contrato |-> Contrato123, PS |-> 0, FechaPrimerPago |-> Val(0)],
     [Contrato |-> Contrato123, PS |-> -10000, FechaPrimerPago |-> Val(0)],
     [Contrato |-> Contrato123, PS |-> 10000, FechaPrimerPago |-> Missing],
     [Contrato |-> ContratoNaN, PS |-> 10000, FechaPrimerPago |-> Val(0)]}

LoanTables ==
    {<<>>} \cup {<<l>> : l \in LoanPool}
        \cup {<<[Contrato |-> ContratoStr(456), PS |-> 15050, FechaPrimerPago |-> Val(7)],
                [Contrato |-> Contrato123, PS |-> 10000, FechaPrimerPago |-> Val(0)]>>}

DepositPool ==
    {[Contrato |-> Contrato123, Deposito |-> a] :
        a \in {-5000, 5000, 10000, 10010, 20020, 30000, 140000}}
        \cup {[Contrato |-> ContratoStr(456), Deposito |-> 10000],
              [Contrato |-> ContratoInt(123), Deposito |-> 10000]}

MinDay == 8

InitLoan ==
    /\ MainIdle
    /\ fz = FzIdle
    /\ fn = FnIdle
    /\ hoy \in (0 - MinDay)..MaxDay
    /\ df_col_prom \in LoanTables
    /\ df_cob_prom \in SeqsUpTo(DepositPool, MaxDeposits)
    /\ filas = <<>>

\* tab "Créditos a Detalle", step 3: the status rows of the selected promoter
CreditosDetalle ==
    /\ pc = "idle"
    /\ pc' = "shown"
    /\ filas' = Filas(df_col_prom, df_cob_prom, hoy, 1)
    /\ UNCHANGED <<vas_rows, df_control, cob_rows, col_rows, desc_rows, pagos_rows,
                   df_cobranza, df_colocaciones, df_desc, df_desc_agg, df_pagos_raw,
                   df_pagos, unmatched_report, fuzzy_calls, fz, fn, hoy,
                   df_col_prom,
                   df_cob_prom>>

\* the tab drawn again on the following day: hoy = datetime.now().date(); fn
\* keeps the rows that were shown before
CreditosDetalleNextDay ==
    /\ pc = "shown"
    /\ hoy < MaxDay
    /\ hoy' = hoy + 1
    /\ filas' = Filas(df_col_prom, df_cob_prom, hoy + 1, 1)
    /\ fn' = [pc |-> "day", filas |-> filas]
    /\ UNCHANGED <<mainVars, fz, df_col_prom, df_cob_prom>>

\* the tab drawn again after the collection sheet gained one deposit of the
\* promoter; fn keeps the deposit and the rows that were shown before
CreditosDetalleNewDeposit ==
    /\ pc = "shown"
    /\ Len(df_cob_prom) < MaxDeposits
    /\ \E d \in DepositPool :
           /\ df_cob_prom' = Append(df_cob_prom, d)
           /\ filas' = Filas(df_col_prom, Append(df_cob_prom, d), hoy, 1)
           /\ fn' = [pc |-> "deposit", filas |-> filas, row |-> d]
    /\ UNCHANGED <<mainVars, fz, hoy, df_col_prom>>

NextLoan == CreditosDetalle \/ CreditosDetalleNextDay \/ CreditosDetalleNewDeposit

SpecLoan == InitLoan /\ [][NextLoan]_vars

\* the clock alone: the deposits stay as they are and every day comes
NextClock == CreditosDetalle \/ CreditosDetalleNextDay

MaxClockDeposits == 1

\* the tab first drawn MinDay days before the first payment date
InitClock ==
    /\ InitLoan
    /\ hoy = 0 - MinDay
    /\ Len(df_cob_prom) <= MaxClockDeposits

SpecClock ==
    InitClock /\ [][NextClock]_vars
        /\ WF_vars(CreditosDetalle) /\ WF_vars(CreditosDetalleNextDay)

-----------------------------------------------------------------------------
(* main() with optional uploads.  An upload says whether a file was given,   *)
(* whether read_excel can read its sheet, and holds the headers and the rows *)
(* of the sheet.  A table is its columns and its rows; reading a column that *)
(* a table lacks raises KeyError.  Of a disbursement row the promoter, the   *)
(* disbursement date and the amount are kept, the other cells are left out;  *)
(* the order of the rows of an aggregate is left out.  The expected-balance  *)
(* file, when given, is readable and has its five columns.                   *)

MaxFileRows == 2

NoFile == [given |-> FALSE]
Upload(readable, columns, rows) ==
    [given |-> TRUE, readable |-> readable, columns |-> columns, rows |-> rows]

Table(columns, rows) == [columns |-> columns, rows |-> rows]

\* DataFrame.empty
Empty(df) == df.columns = {} \/ Len(df.rows) = 0

\* the cells of a row under the headers a sheet has
Restrict(r, columns) == [c \in DOMAIN r \cap columns |-> r[c]]

\* the rows of a set in some order
RECURSIVE RowsOf(_)
RowsOf(S) ==
    IF S = {} THEN <<>> ELSE LET r == CHOOSE x \in S : TRUE IN <<r>> \o RowsOf(S \ {r})

cols_to_read_from_excel ==
    {"Nombre", "Fecha_desembolso", "Monto_desembolsado", "Nombre_del_cliente",
     "Contrato", "Cuota_total", "Fecha_primer_pago"}

empty_agg == Table({"Nombre", "Semana", "Creditos_Colocados", "Venta"}, <<>>)
empty_detail == Table(cols_to_read_from_excel, <<>>)

\* load_data_colocaciones, df_col_detail_return: the name as upper-case text, a
\* missing amount as 0
ColDetailRows(rows) ==
    [i \in 1..Len(rows) |->
        [Nombre |-> AsTypeStrStripUpper(rows[i].Nombre),
         Fecha_desembolso |-> rows[i].Fecha_desembolso,
         Monto_desembolsado |-> IF rows[i].Monto_desembolsado.na THEN 0
                                ELSE rows[i].Monto_desembolsado.v]]

\* load_data_colocaciones, df_col_agg: complete rows counted and summed by
\* (name, week)
ColAgg(rows) ==
    LET keep == {i \in 1..Len(rows) :
                    /\ rows[i].Nombre # NaN
                    /\ ~rows[i].Fecha_desembolso.na
                    /\ ~rows[i].Monto_desembolsado.na}
        Key(i) == <<AsTypeStrStripUpper(rows[i].Nombre),
                    to_period_W_FRI(rows[i].Fecha_desembolso.v)>>
        Group(i) == {j \in keep : Key(j) = Key(i)}
        monto == [i \in 1..Len(rows) |-> [v |-> rows[i].Monto_desembolsado.v]]
    IN  IF keep = {} THEN empty_agg
        ELSE Table(empty_agg.columns,
                   RowsOf({[Nombre |-> Key(i)[1], Semana |-> Key(i)[2],
                            Creditos_Colocados |-> Cardinality(Group(i)),
                            Venta |-> SumWhere(monto, Group(i), "v")] : i \in keep}))

load_data_colocaciones(col_file) ==
    IF ~col_file.given THEN [agg |-> empty_agg, detail |-> empty_detail]
    ELSE IF ~col_file.readable THEN [agg |-> empty_agg, detail |-> empty_detail]
    ELSE IF cols_to_read_from_excel \ col_file.columns # {}
    THEN [agg |-> empty_agg,
          detail |-> Table(col_file.columns,
                           [i \in 1..Len(col_file.rows) |->
                               Restrict(col_file.rows[i], col_file.columns)])]
    ELSE [agg |-> ColAgg(col_file.rows),
          detail |-> Table(cols_to_read_from_excel, ColDetailRows(col_file.rows))]

\* main: df_colocaciones_info_completa of a detail table
InfoCompleta(detail, control) ==
    IF Empty(detail) \/ "Nombre" \notin detail.columns THEN Table({}, <<>>)
    ELSE Table(detail.columns \cup {"N"},
               [i \in 1..Len(detail.rows) |->
                   ReconcileColocacionesRows(detail.rows, control)[i] @@ detail.rows[i]])

\* load_data_descuentos with its file argument
load_data_descuentos(por_capturar_file, control) ==
    IF ~por_capturar_file.given \/ ~por_capturar_file.readable
    THEN Table({"N", "Semana", "Descuento_Renovacion"}, <<>>)
    ELSE Table({"N", "Semana", "Descuento_Renovacion"},
               RowsOf(AggDescuentos(
                          MapDescuentosRows(PositiveDescuentos(por_capturar_file.rows),
                                            control))))

\* the table load_data_pagos returns when no file is given
PagosSinArchivo == Table({"PROMOTOR", "SALDO"}, <<>>)

\* load_data_pagos with its file argument
load_data_pagos(pagos_file) ==
    IF ~pagos_file.given THEN PagosSinArchivo
    ELSE LET rows == pagos_file.rows
             saldo == [i \in 1..Len(rows) |-> Amount(convert_number(rows[i].SALDO))]
             sv == [i \in 1..Len(rows) |-> Amount(convert_number(rows[i].MULTAS))]
             keep == {i \in 1..Len(rows) : rows[i].PROMOTOR # NaN /\ ~saldo[i].na}
         IN  Table({"PROMOTOR", "SALDO", "PS", "SV", "VENCI"},
                   SelectIdx([i \in 1..Len(rows) |->
                                 [PROMOTOR |-> StrStripUpper(rows[i].PROMOTOR),
                                  SALDO |-> saldo[i].v,
                                  PS |-> IF rows[i].PS.na THEN 0 ELSE rows[i].PS.v,
                                  SV |-> IF sv[i].na THEN 0 ELSE sv[i].v,
                                  VENCI |-> rows[i].VENCI]],
                             keep, 1))

\* main: the columns PROMOTOR_norm and N added to df_pagos_raw
MainPagos(df, control) ==
    Table(df.columns \cup {"PROMOTOR_norm", "N"},
          [i \in 1..Len(df.rows) |->
              ReconcilePagosRows(df.rows, control)[i] @@ df.rows[i]])

NoKpis ==
    [raised |-> "", clientes_activos |-> 0, clientes_vencidos |-> 0,
     saldo_vencido_total |-> 0, clientes_atrasados |-> 0, cartera_ind |-> 0]

\* tab "Detalles del Promotor": the KPIs of the current state of a promoter
PromotorKpis(df_pagos_raw_, promotor_sel, today) ==
    LET df_pagos_prom_raw ==
            SelectIdx(df_pagos_raw_.rows,
                      {i \in 1..Len(df_pagos_raw_.rows) :
                          df_pagos_raw_.rows[i].N = promotor_sel}, 1)
        I == 1..Len(df_pagos_prom_raw)
        Venci(i) == df_pagos_prom_raw[i].VENCI
    IN  IF ~({"VENCI", "SV", "PS", "SALDO"} \subseteq df_pagos_raw_.columns)
        THEN [NoKpis EXCEPT !.raised = "KeyError"]
        ELSE [raised |-> "",
              clientes_activos |->
                  Cardinality({i \in I : ~Venci(i).na /\ Venci(i).v >= today}),
              clientes_vencidos |->
                  Cardinality({i \in I : /\ ~Venci(i).na /\ Venci(i).v < today
                                         /\ df_pagos_prom_raw[i].SV > 0}),
              saldo_vencido_total |-> SumSeq(Column(df_pagos_prom_raw, "SV")),
              clientes_atrasados |->
                  Cardinality({i \in I : /\ ~Venci(i).na /\ Venci(i).v >= today
                                         /\ df_pagos_prom_raw[i].SV
                                                > df_pagos_prom_raw[i].PS}),
              cartera_ind |-> SumSeq(Column(df_pagos_prom_raw, "SALDO"))]

ColSheetRows ==
    {[Nombre |-> PromotorUno, Fecha_desembolso |-> Val(-4),
      Monto_desembolsado |-> Val(150000)],
     [Nombre |-> PromotorUno, Fecha_desembolso |-> Val(-4),
      Monto_desembolsado |-> Val(10000)],
     [Nombre |-> PromotorDos, Fecha_desembolso |-> Val(4),
      Monto_desembolsado |-> Missing]}

ColFiles ==
    {NoFile, Upload(FALSE, {}, <<>>)}
        \cup {Upload(TRUE, cols_to_read_from_excel \ drop, rows) :
                 drop \in {{}, {"Monto_desembolsado"}, {"Nombre"}},
                 rows \in SeqsUpTo(ColSheetRows, MaxFileRows)}

DescFiles ==
    {NoFile, Upload(FALSE, {}, <<>>)}
        \cup {Upload(TRUE, {"Promotor", "Fecha", "Descuento"}, rows) :
                 rows \in {DescTest, DescTestFuzzy}}

PagosSheetRows ==
    {[PROMOTOR |-> PromotorUno, SALDO |-> Txt100, PS |-> Val(1000), MULTAS |-> Txt25,
      VENCI |-> Val(7)],
     [PROMOTOR |-> PromotorUno, SALDO |-> Txt100, PS |-> Missing, MULTAS |-> RawNaN,
      VENCI |-> Val(-7)],
     [PROMOTOR |-> PROMOTOR_DOS, SALDO |-> Txt100, PS |-> Val(1000), MULTAS |-> Txt15,
      VENCI |-> Val(-7)]}

PagosFiles ==
    {NoFile}
        \cup {Upload(TRUE, {"PROMOTOR", "SALDO", "PS", "MULTAS", "VENCI"}, rows) :
                 rows \in SeqsUpTo(PagosSheetRows, MaxFileRows)}

InitFiles ==
    /\ MainIdle
    /\ LoanIdle
    /\ fz = FzIdle
    /\ fn \in {[pc |-> "colocaciones", control |-> LoadControlRows(ControlTest),
                col_file |-> c, por_capturar_file |-> d, pagos_file |-> p,
                today |-> 0, promotor_sel |-> NoCode,
                df_col_agg |-> Table({}, <<>>),
                df_colocaciones_raw_details |-> Table({}, <<>>),
                df_colocaciones_info_completa |-> Table({}, <<>>),
                df_desc_agg |-> Table({}, <<>>),
                df_pagos_raw |-> Table({}, <<>>),
                kpis |-> NoKpis] :
                  c \in ColFiles, d \in DescFiles, p \in PagosFiles}

\* main: load_data_colocaciones and the codes of the detail table
LoadDataColocacionesCall ==
    /\ fn.pc = "colocaciones"
    /\ LET loaded == load_data_colocaciones(fn.col_file)
       IN  fn' = [fn EXCEPT !.pc = "descuentos",
                            !.df_col_agg = loaded.agg,
                            !.df_colocaciones_raw_details = loaded.detail,
                            !.df_colocaciones_info_completa =
                                InfoCompleta(loaded.detail, fn.control)]
    /\ UNCHANGED <<mainVars, fz, loanVars>>

\* main: load_data_descuentos
LoadDataDescuentosCall ==
    /\ fn.pc = "descuentos"
    /\ fn' = [fn EXCEPT !.pc = "pagos",
                        !.df_desc_agg =
                            load_data_descuentos(fn.por_capturar_file, fn.control)]
    /\ UNCHANGED <<mainVars, fz, loanVars>>

\* main: load_data_pagos and the codes of the expected balances
LoadDataPagosCall ==
    /\ fn.pc = "pagos"
    /\ fn' = [fn EXCEPT !.pc = "tabs",
                        !.df_pagos_raw =
                            MainPagos(load_data_pagos(fn.pagos_file), fn.control)]
    /\ UNCHANGED <<mainVars, fz, loanVars>>

\* tab "Detalles del Promotor" drawn for a promoter of the roster
DetallesDelPromotor ==
    /\ fn.pc = "tabs"
    /\ \E i \in 1..Len(fn.control) :
        LET kpis == PromotorKpis(fn.df_pagos_raw, fn.control[i].N, fn.today)
        IN  fn' = [fn EXCEPT !.pc = IF kpis.raised = "" THEN "shown" ELSE "raised",
                             !.promotor_sel = fn.control[i].N,
                             !.kpis = kpis]
    /\ UNCHANGED <<mainVars, fz, loanVars>>

NextFiles ==
    \/ LoadDataColocacionesCall
    \/ LoadDataDescuentosCall
    \/ LoadDataPagosCall
    \/ DetallesDelPromotor

SpecFiles == InitFiles /\ [][NextFiles]_vars

-----------------------------------------------------------------------------
(* load_data_control and build_promoters_summary.  The uploaded workbook is  *)
(* its sheet "Control" and its other sheets in their order; the name of a    *)
(* sheet is a code already trimmed and in upper case, and no two sheets have *)
(* the same name.  Seniority is in hundredths of a month.  The order of the  *)
(* rows of the two summaries is left out.                                    *)

MaxMetaRows == 2

\* the first cell of a group, missing or not
GroupFirst_any(cells) == IF cells = <<>> THEN Missing ELSE cells[1]

\* GroupBy.first(): the first cell of a group that is not missing, a missing
\* cell if there is none
GroupFirst(cells) ==
    LET present == {i \in 1..Len(cells) : ~cells[i].na}
    IN  IF present = {} THEN Missing
        ELSE cells[CHOOSE i \in present : \A j \in present : i <= j]

\* load_data_control: the second and third column of every sheet with at least
\* 3 columns, under one another, with the name of the sheet as "Promotor"
RECURSIVE ConcatMetas(_)
ConcatMetas(sheets) ==
    IF sheets = <<>> THEN <<>>
    ELSE (IF Head(sheets).ncols < 3 THEN <<>>
          ELSE [i \in 1..Len(Head(sheets).rows) |->
                   [Fecha |-> Head(sheets).rows[i].Fecha,
                    Meta |-> Head(sheets).rows[i].Meta,
                    Promotor |-> Head(sheets).name]])
         \o ConcatMetas(Tail(sheets))

\* groupby(["Promotor", "Semana"])["Meta"].first(): rows without a date have no
\* week and belong to no group
MetasSummary(df_metas) ==
    LET dated == {i \in 1..Len(df_metas) : ~df_metas[i].Fecha.na}
        Key(i) == <<df_metas[i].Promotor, to_period_W_FRI(df_metas[i].Fecha.v)>>
    IN  {[Promotor |-> Key(i)[1], Semana |-> Key(i)[2],
          Meta |-> GroupFirst(Column(SelectIdx(df_metas,
                                               {j \in dated : Key(j) = Key(i)}, 1),
                                     "Meta"))] : i \in dated}

load_data_control(vas_file) ==
    [df_control |-> [i \in 1..Len(vas_file.control) |->
                        LoadControlRows(vas_file.control)[i]
                            @@ [Antig |-> vas_file.control[i].Antig]],
     df_metas_summary |-> MetasSummary(ConcatMetas(vas_file.sheets))]

\* Series.sum() of the targets of a summary: missing targets count as 0
TotalMeta(metas) ==
    SumMetas({[Promotor |-> r.Promotor, Semana |-> r.Semana, Meta |-> r.Meta.v] :
                 r \in {x \in metas : ~x.Meta.na}})

\* the deposits whose name is the upper-case name of the roster
TotalCobByName(cob, name) ==
    SumWhere(cob, {i \in 1..Len(cob) : cob[i].Nombre = Upper(name)}, "Deposito")

\* the deposits reconciled to a code
TotalCobByCode(cob, code) ==
    SumWhere(cob, {i \in 1..Len(cob) : cob[i].N = code}, "Deposito")

\* build_promoters_summary: a promoter without seniority, targets and deposits
\* is left out; sorting a summary without rows raises KeyError
build_promoters_summary(control, metas, cob) ==
    LET total_meta(r) == TotalMeta({x \in metas : x.Promotor = r.N})
        total_cob(r) == TotalCobByName(cob, r.Nombre)
        kept == {i \in 1..Len(control) :
                    ~(/\ control[i].Antig.na
                      /\ total_meta(control[i]) = 0
                      /\ total_cob(control[i]) = 0)}
    IN  [raised |-> IF kept = {} THEN "KeyError" ELSE "",
         rows |-> {[N |-> control[i].N,
                    Nombre |-> control[i].Nombre,
                    Antig |-> control[i].Antig,
                    Total_Metas |-> total_meta(control[i]),
                    Total_Cobranza |-> total_cob(control[i]),
                    Diferencia |-> total_cob(control[i]) - total_meta(control[i])] :
                      i \in kept}]

WithAntig(control, antig) ==
    [i \in 1..Len(control) |-> control[i] @@ [Antig |-> antig[i]]]

\* rosters with and without seniority; nothing names the promoter of the last
ControlSummary ==
    {WithAntig(ControlTest, <<Val(1235), Val(2400), Missing>>),
     WithAntig(ControlMixed, <<Val(1235), Missing, Missing>>),
     WithAntig(<<[N |-> "P4", Nombre |-> PromotorCuatro]>>, <<Missing>>)}

\* deposits under an exact name, a misspelt one, one without accent, and none
CobSummaryPool ==
    {r \in CobRowPool : r.Nombre \in {PromotorUno, PromotorUnno, jose_sp, NaN}}

MetaSheetRows ==
    {[Fecha |-> Val(-4), Meta |-> Val(100000)],
     [Fecha |-> Val(-3), Meta |-> Missing],
     [Fecha |-> Val(-2), Meta |-> Val(110000)],
     [Fecha |-> Val(3), Meta |-> Val(250000)],
     [Fecha |-> Missing, Meta |-> Val(100000)]}

\* the workbook of test_load_data_control with any rows in the sheet of P1
VasFiles ==
    {[control |-> c,
      sheets |-> <<[name |-> "P1", ncols |-> 3, rows |-> m],
                   [name |-> "P2", ncols |-> 3,
                    rows |-> <<[Fecha |-> Val(-3), Meta |-> Val(200000)]>>],
                   [name |-> "P3_BAD_FORMAT", ncols |-> 2,
                    rows |-> <<[Fecha |-> Val(-3), Meta |-> Val(200000)]>>]>>] :
        c \in ControlSummary, m \in SeqsUpTo(MetaSheetRows, MaxMetaRows)}

InitSummary ==
    /\ MainIdle
    /\ LoanIdle
    /\ fz = FzIdle
    /\ fn \in {[pc |-> "control", vas_file |-> v, cob_rows |-> c,
                df_control |-> <<>>, df_metas_summary |-> {}, df_cobranza |-> <<>>,
                df_promoters_summary |-> {}] :
                  v \in VasFiles, c \in SeqsUpTo(CobSummaryPool, MaxRows)}

\* main: load_data_control
LoadDataControlCall ==
    /\ fn.pc = "control"
    /\ LET loaded == load_data_control(fn.vas_file)
       IN  fn' = [fn EXCEPT !.pc = "cobranza",
                            !.df_control = loaded.df_control,
                            !.df_metas_summary = loaded.df_metas_summary]
    /\ UNCHANGED <<mainVars, fz, loanVars>>

\* main: load_data_cobranza and the codes of the deposits
ReconcileCobranzaCall ==
    /\ fn.pc = "cobranza"
    /\ fn' = [fn EXCEPT !.pc = "summary",
                        !.df_cobranza =
                            ReconcileCobranzaRows(LoadDataCobranza(fn.cob_rows),
                                                  fn.df_control)]
    /\ UNCHANGED <<mainVars, fz, loanVars>>

\* main: build_promoters_summary, inside the try of the load block
BuildPromotersSummaryCall ==
    /\ fn.pc = "summary"
    /\ LET built == build_promoters_summary(fn.df_control, fn.df_metas_summary,
                                            fn.df_cobranza)
       IN  fn' = [fn EXCEPT !.pc = IF built.raised = "" THEN "done" ELSE "raised",
                            !.df_promoters_summary = built.rows]
    /\ UNCHANGED <<mainVars, fz, loanVars>>

NextSummary ==
    \/ LoadDataControlCall
    \/ ReconcileCobranzaCall
    \/ BuildPromotersSummaryCall

SpecSummary == InitSummary /\ [][NextSummary]_vars

-----------------------------------------------------------------------------
(* Properties of the reconciliation.                                        *)

Entries == Range(df_control)

\* the name as the reconciler of source src sees it, for every row it is given
ReconciledNames(src) ==
    CASE src = "cobranza" ->
            {StrStripUpper(r.Nombre) :
                r \in {x \in Range(cob_rows) :
                         x.Nombre # NaN /\ ~convert_number(x.Deposito).na}}
      [] src = "colocaciones" -> {AsTypeStrStripUpper(r.Nombre) : r \in Range(col_rows)}
      [] src = "descuentos" ->
            {AsTypeStrStripUpper(r.Promotor) :
                r \in {x \in Range(desc_rows) : convert_number(x.Descuento).m > 0}}
      [] src = "pagos" ->
            {StrStripUpper(r.PROMOTOR) :
                r \in {x \in Range(pagos_rows) :
                         x.PROMOTOR # NaN /\ ~convert_number(x.SALDO).na}}

\* the (name, code) pairs of the rows of the reconciled table of source src
Reconciled(src) ==
    CASE src = "cobranza" ->
            {<<df_cobranza[i].Nombre, df_cobranza[i].N>> : i \in 1..Len(df_cobranza)}
      [] src = "colocaciones" ->
            {<<df_colocaciones[i].Nombre, df_colocaciones[i].N>> :
                i \in 1..Len(df_colocaciones)}
      [] src = "descuentos" ->
            {<<df_desc[i].Promotor, df_desc[i].CodigoPromotor>> : i \in 1..Len(df_desc)}
      [] src = "pagos" ->
            {<<df_pagos_raw[i].PROMOTOR, df_pagos_raw[i].N>> : i \in 1..Len(df_pagos_raw)}

SimilarTo(e, name) ==
    RatioAtLeast(ratio(normalize_name(e.Nombre), normalize_name(name)), 80)

ExactTierFails(name) == \A e \in Entries : Upper(Strip(e.Nombre)) # name

NormalizedTierFails(name) ==
    \A e \in Entries : normalize_name(e.Nombre) # normalize_name(name)

FuzzyTierFails(name) == \A e \in Entries : ~SimilarTo(e, name)

FailsAllTiers(name) ==
    ExactTierFails(name) /\ NormalizedTierFails(name) /\ FuzzyTierFails(name)

\* the table main() goes on with holds a row of that name without code; the
\* discount loader hands on its aggregate only
RetainedWithoutCode(src, name) ==
    IF src = "descuentos" THEN \E r \in df_desc_agg : r.N = NoCode
    ELSE <<name, NoCode>> \in Reconciled(src)

Reported(src, name) ==
    unmatched_report[src].shown /\ name \in unmatched_report[src].names

\* C1: in every reconciled source (deposits, disbursements, discounts, expected
\* balances) a row whose name fails all three tiers is kept in the output with a
\* null code and is listed in the unmatched-names report of that source.
C1_Original ==
    pc = "done" =>
        \A src \in Sources :
            \A name \in ReconciledNames(src) :
                FailsAllTiers(name) =>
                    RetainedWithoutCode(src, name) /\ Reported(src, name)

\* C2: every code attached to a row is the code of a directory entry whose
\* normalized name equals the row's normalized name or has ratio >= 0.8 with it,
\* and the grouped tables hold directory codes only.
C2_CodesComeFromDirectory ==
    /\ \A src \in Sources :
           \A p \in Reconciled(src) :
               p[2] # NoCode =>
                   \E e \in Entries :
                       /\ e.N = p[2]
                       /\ \/ normalize_name(e.Nombre) = normalize_name(p[1])
                          \/ SimilarTo(e, p[1])
    /\ \A r \in df_desc_agg \cup df_pagos : \E e \in Entries : e.N = r.N

\* a deposit got its code from the fuzzy tier, and an unknown name got none
C2_Witness ==
    /\ pc = "done"
    /\ \E i \in 1..Len(df_cobranza) :
           /\ df_cobranza[i].fuzzy
           /\ df_cobranza[i].N # NoCode
           /\ NormalizedTierFails(df_cobranza[i].Nombre)
    /\ \E i \in 1..Len(df_cobranza) : df_cobranza[i].N = NoCode

\* C3: a row whose trimmed upper-case name equals the upper-case display name of a
\* directory entry gets that entry's code, in every source and every directory.
C3_Original ==
    pc = "done" =>
        \A src \in Sources :
            \A p \in Reconciled(src) :
                \A e \in Entries : Upper(Strip(e.Nombre)) = p[1] => p[2] = e.N

\* C4: fuzzy_map is called for a row only if both the exact upper-case lookup and
\* the normalized lookup leave that row without code.
C4_Original ==
    \A src \in Sources :
        \A c \in fuzzy_calls[src] :
            ExactTierFails(c.raw) /\ NormalizedTierFails(c.raw)

\* C6: with the roster Promotor Uno / Dos / Cuatro, load_data_descuentos gives a
\* positive discount of 'Promotor Tres' to no code, gives one of 'Promotor Unno' to
\* P1, and returns for the first sheet of its test one row: P1, 10.00.
C6_Original ==
    (pc \in {"pagos", "done"} /\ vas_rows = ControlTest) =>
        /\ \A i \in 1..Len(df_desc) :
               /\ df_desc[i].Promotor = PROMOTOR_TRES => df_desc[i].CodigoPromotor = NoCode
               /\ df_desc[i].Promotor = PROMOTOR_UNNO => df_desc[i].CodigoPromotor = "P1"
        /\ desc_rows = DescTest =>
               df_desc_agg = {[N |-> "P1", Semana |-> to_period_W_FRI(-1),
                               Descuento_Renovacion |-> 1000]}

-----------------------------------------------------------------------------
(* Properties of fuzzy_map.                                                 *)

FzScore(c) == ratio(c, fz.name)

\* C5: fuzzy_map returns a choice only if its ratio to the name is >= cutoff; it
\* returns one whenever some choice reaches the cutoff, a ratio equal to the
\* cutoff included, and then one of the largest ratio; it returns None when every
\* choice is below the cutoff and when there is no choice.
C5_FuzzyCutoff ==
    fz.pc = "returned" =>
        /\ fz.result # None =>
               /\ fz.result \in Range(fz.choices)
               /\ 100 * FzScore(fz.result).num >= fz.cutoff * FzScore(fz.result).den
               /\ \A c \in Range(fz.choices) :
                      FzScore(c).num * FzScore(fz.result).den
                          <= FzScore(fz.result).num * FzScore(c).den
        /\ (\E c \in Range(fz.choices) :
                100 * FzScore(c).num >= fz.cutoff * FzScore(c).den) => fz.result # None
        /\ (\A c \in Range(fz.choices) :
                100 * FzScore(c).num < fz.cutoff * FzScore(c).den) => fz.result = None
        /\ fz.choices = <<>> => fz.result = None

\* the best choice has a ratio exactly equal to the cutoff and is returned
C5_Witness ==
    /\ fz.pc = "returned"
    /\ fz.result # None
    /\ 100 * FzScore(fz.result).num = fz.cutoff * FzScore(fz.result).den

-----------------------------------------------------------------------------
(* Properties of the status rows.                                           *)

LoanOf(r) == df_col_prom[r.cred]
FirstPayment(r) == LoanOf(r).FechaPrimerPago.v
InstallmentOf(r) == Float64(LoanOf(r).PS)

\* the deposits of the rows in keep among the first n, added in row order
RECURSIVE FloatSumOf(_, _, _)
FloatSumOf(cob, keep, n) ==
    IF n = 0 THEN FloatZero
    ELSE IF n \in keep THEN FloatAdd(FloatSumOf(cob, keep, n - 1), Float64(cob[n].Deposito))
         ELSE FloatSumOf(cob, keep, n - 1)

Deposited(r) ==
    FloatSumOf(df_cob_prom,
               {i \in 1..Len(df_cob_prom) :
                    df_cob_prom[i].Contrato = LoanOf(r).Contrato
                        /\ LoanOf(r).Contrato.t # "nan"},
               Len(df_cob_prom))

\* k * ps <= x as real numbers, for a double ps > 0 and an integer k
TimesLeq(k, ps, x) ==
    IF k >= 0 THEN ~x.neg /\ ~MagLess(x.m, MagMul(ps.m, k))
    ELSE ~x.neg \/ ~MagLess(MagMul(ps.m, 0 - k), x.m)

C8_PaymentsDue ==
    pc = "shown" =>
        \A r \in Range(filas) :
            LET d == hoy - FirstPayment(r)
            IN  /\ r.PagosDebidos \in 1..14
                /\ d < 7 => r.PagosDebidos = 1
                /\ d >= 91 => r.PagosDebidos = 14
                /\ (0 <= d /\ d < 91) =>
                       /\ 7 * (r.PagosDebidos - 1) <= d
                       /\ d < 7 * r.PagosDebidos

\* day 28 after the first payment date: five payments are due
C8_Witness ==
    /\ pc = "shown"
    /\ \E r \in Range(filas) : hoy - FirstPayment(r) = 28 /\ r.PagosDebidos = 5

\* C9: for installmentSize > 0, paymentsCompleted is the number of whole
\* installments in the deposits, at most 14, and paymentsIncomplete is 1 exactly
\* when the deposits leave a remainder.
C9_CompletedAndIncomplete ==
    pc = "shown" =>
        \A r \in Range(filas) :
            LoanOf(r).PS > 0 =>
                /\ r.PagosCompletos <= 14
                /\ TimesLeq(r.PagosCompletos, InstallmentOf(r), Deposited(r))
                /\ r.PagosCompletos < 14 =>
                       ~TimesLeq(r.PagosCompletos + 1, InstallmentOf(r), Deposited(r))
                /\ r.PagosIncompletos =
                       IF QuoRem(Deposited(r).m, InstallmentOf(r).m).r # MagZero
                       THEN 1 ELSE 0

\* thirty thousand deposited against installments of 150.50: one whole
\* installment and a partial one
C9_Witness ==
    /\ pc = "shown"
    /\ \E r \in Range(filas) :
           /\ LoanOf(r).PS = 15050
           /\ Deposited(r) = Float64(30000)
           /\ r.PagosCompletos = 1
           /\ r.PagosIncompletos = 1

\* v = max(0, d)
IsMax0(v, d) == ~v.neg /\ ~FloatLess(v, d) /\ (v = FloatZero \/ v = d)

\* C10: overdueAmount = max(0, paymentsDue * installmentSize - deposits); first
\* payment 2023-01-06, installment 100, deposits 300, today 2023-01-27 give 4 due,
\* 3 complete, 0 incomplete and 100 overdue.
C10_OverdueAmount ==
    pc = "shown" =>
        \A r \in Range(filas) :
            /\ IsMax0(r.SaldoVencido,
                      FloatSub(FloatMulInt(r.PagosDebidos, InstallmentOf(r)),
                               Deposited(r)))
            /\ (FirstPayment(r) = 0 /\ hoy = 21 /\ LoanOf(r).PS = 10000
                    /\ Deposited(r) = Float64(30000)) =>
                   /\ r.PagosDebidos = 4
                   /\ r.PagosCompletos = 3
                   /\ r.PagosIncompletos = 0
                   /\ r.SaldoVencido = Float64(10000)

\* the scenario of the claim
C10_Witness ==
    /\ pc = "shown"
    /\ hoy = 21
    /\ \E r \in Range(filas) :
           /\ FirstPayment(r) = 0
           /\ LoanOf(r).PS = 10000
           /\ Deposited(r) = Float64(30000)
           /\ r.SaldoVencido = Float64(10000)

-----------------------------------------------------------------------------
(* Properties of the status rows: missing and mistyped cells.               *)

\* C11: a loan whose installment size is <= 0 has 0 complete and 0 incomplete
\* payments and the state Indeterminado, never Atrasado or Vencido.
C11_Original ==
    pc = "shown" =>
        \A r \in Range(filas) :
            LoanOf(r).PS <= 0 =>
                /\ r.PagosCompletos = 0
                /\ r.PagosIncompletos = 0
                /\ r.Estatus = "Indeterminado"

\* C12: a loan without first-payment date or without contract id (an empty cell)
\* has no row in the status table.
C12_Original ==
    pc = "shown" =>
        \A r \in Range(filas) :
            ~LoanOf(r).FechaPrimerPago.na /\ LoanOf(r).Contrato # ContratoNaN

\* the deposits whose contract id, written as text, is the loan's written as text
DepositedAsText(r) ==
    FloatSumOf(df_cob_prom,
               {i \in 1..Len(df_cob_prom) :
                    /\ df_cob_prom[i].Contrato.t # "nan"
                    /\ LoanOf(r).Contrato.t # "nan"
                    /\ df_cob_prom[i].Contrato.v = LoanOf(r).Contrato.v},
               Len(df_cob_prom))

\* C13: the deposits counted for a loan are those whose contract id equals the
\* loan's once both are written as text: a deposit of contract 123 read as a
\* number counts for the loan of contract "123" read as text.
C13_Original ==
    pc = "shown" =>
        \A r \in Range(filas) :
            /\ r.SaldoVencido =
                   Max0(FloatSub(FloatMulInt(r.PagosDebidos, InstallmentOf(r)),
                                 DepositedAsText(r)))
            /\ LoanOf(r).PS > 0 =>
                   r.PagosCompletos =
                       Min2(FloorDiv(DepositedAsText(r), InstallmentOf(r)), 14)

-----------------------------------------------------------------------------
(* Properties of convert_number.                                            *)

\* the float is the amount of a centavos
IsCentavos(f, a) ==
    /\ ~f.na
    /\ IF f.e >= 2
       THEN f.m % Pow10(f.e - 2) = 0 /\ f.m \div Pow10(f.e - 2) = a
       ELSE f.m * Pow10(2 - f.e) = a

\* C14: an amount >= 1000 with two decimals written with comma between the
\* thousands and a period before the decimals ("1,234.56") converts to itself.
C14_Original ==
    (fn.pc = "converted" /\ fn.layout = "us" /\ fn.a >= 100000) =>
        IsCentavos(fn.result, fn.a)

\* C15: a positive amount with two decimals written with period between the
\* thousands and a comma before the decimals, amounts below 1000 included,
\* converts to itself.
C15_Original ==
    (fn.pc = "converted" /\ fn.layout = "eu" /\ fn.a > 0) =>
        IsCentavos(fn.result, fn.a)

\* the place in the loaded table of row i of the sheet
RankIn(keep, i) == Cardinality({j \in keep : j <= i})

\* C16: convert_number returns a float or NaN for text, numbers and NaN, NaN for
\* "abc"; load_data_cobranza keeps, in order, exactly the rows that have a name
\* and whose amount did not convert to NaN.
C16_TotalAndDropsNaN ==
    /\ fn.pc \in {"converted", "loaded"} =>
           /\ fn.result \in [na : BOOLEAN, m : Int, e : Nat]
           /\ fn.x = TxtAbc => fn.result.na
           /\ fn.x = RawNaN => fn.result.na
           /\ fn.x.k = "int" => fn.result = Float(fn.x.v, 0)
    /\ fn.pc = "loaded" =>
           LET keep == {i \in 1..Len(fn.sheet) :
                           /\ fn.sheet[i].Nombre # NaN
                           /\ ~convert_number(fn.sheet[i].Deposito).na}
           IN  /\ Len(fn.loaded) = Cardinality(keep)
               /\ \A i \in keep :
                      fn.loaded[RankIn(keep, i)].Nombre = Upper(Strip(fn.sheet[i].Nombre))

\* of two rows with a name, the one whose amount is "abc" was dropped
C16_Witness ==
    /\ fn.pc = "loaded"
    /\ Len(fn.sheet) = 2
    /\ Len(fn.loaded) = 1
    /\ \A i \in 1..2 : fn.sheet[i].Nombre # NaN
    /\ \E i \in 1..2 : fn.sheet[i].Deposito = TxtAbc

-----------------------------------------------------------------------------
(* Properties of normalize_name.                                            *)

\* C17: normalize_name applied to its own result returns that result, for every
\* string, ordinal indicators, superscripts, ligatures and sharp s included.
C17_Original == fn.pc = "twice" => fn.twice = fn.once

-----------------------------------------------------------------------------
(* Properties of the week buckets.  Day 0 is a Friday, so the Fridays are the   *)
(* multiples of 7 and the Saturdays the days that leave 1.                      *)

\* the Fridays that end a Saturday-to-Friday interval holding d
FridaysOf(d) == {e \in (d - 7)..(d + 7) : e % 7 = 0 /\ e - 6 <= d /\ d <= e}

\* C18: the bucket of a date starts on a Saturday, ends on the Friday 6 days
\* later and holds the date; it is the only such interval; two dates have equal
\* buckets exactly when they lie in the same Saturday-to-Friday interval.
C18_WeekBuckets ==
    fn.pc = "returned" =>
        /\ fn.Semana1.end - fn.Semana1.start = 6
        /\ fn.Semana1.end % 7 = 0
        /\ fn.Semana1.start % 7 = 1
        /\ fn.Semana1.start <= fn.d1 /\ fn.d1 <= fn.Semana1.end
        /\ FridaysOf(fn.d1) = {fn.Semana1.end}
        /\ (fn.Semana1 = fn.Semana2) <=> (FridaysOf(fn.d1) = FridaysOf(fn.d2))

\* a Friday and the Saturday after it are in different buckets, the Friday in the
\* bucket it ends
C18_Witness ==
    /\ fn.pc = "returned"
    /\ fn.d1 = 7
    /\ fn.d2 = 8
    /\ fn.Semana1 = [start |-> 1, end |-> 7]
    /\ fn.Semana2 = [start |-> 8, end |-> 14]

-----------------------------------------------------------------------------
(* Properties of the ranking and the cumulative evaluation.                 *)

\* the targets of promoter p handed to the ranking
RankedMetas(p) == {r \in fn.metas : r.Promotor = p /\ r.Semana.end < fn.cutoff}

\* the target sum a table shows for the key k in column col, 0 without a row
ShownSum(table, col, k, sum) ==
    IF \E r \in table : r[col] = k
    THEN (CHOOSE r \in table : r[col] = k)[sum]
    ELSE 0

\* C19: the target sum of a promoter in the ranking covers the promoter's weeks
\* but its latest (0 for a promoter with one week), in build_ranking of the
\* module and in the one of the tab alike; the cumulative evaluation up to a week
\* sums every target up to that week.
C19_RankingExcludesLatestWeek ==
    fn.pc = "cumulated" =>
        \A p \in {"P1", "P2"} :
            LET ranked == RankedMetas(p)
                earlier == {r \in ranked : \E x \in ranked : x.Semana.end > r.Semana.end}
            IN  /\ Cardinality(ranked \ earlier) <= 1
                /\ ShownSum(fn.ranking, "N", p, "Metas_sin_ultima") = SumMetas(earlier)
                /\ ShownSum(fn.ranking_module, "N", p, "Metas_sin_ultima")
                       = SumMetas(earlier)
                /\ Cardinality(ranked) = 1 =>
                       ShownSum(fn.ranking, "N", p, "Metas_sin_ultima") = 0
                /\ ShownSum(fn.cum, "Nombre_Promotor",
                            Upper(CodeToName(fn.control)[p]), "Meta")
                       = SumMetas({r \in fn.metas :
                                      /\ r.Promotor = p
                                      /\ r.Semana.end <= fn.selected_week.end})

\* P1 has targets in W1..W4 of different sizes: the ranking shows W1..W3, the
\* cumulative evaluation up to W4 shows all four
C19_Witness ==
    /\ fn.pc = "cumulated"
    /\ fn.selected_week = Week(4)
    /\ Cardinality(RankedMetas("P1")) = 4
    /\ \E r \in fn.metas : r.Promotor = "P1" /\ r.Semana = Week(4) /\ r.Meta = 250000
    /\ ShownSum(fn.ranking, "N", "P1", "Metas_sin_ultima") = 300000
    /\ ShownSum(fn.cum, "Nombre_Promotor", Upper(Eva), "Meta") = 550000

-----------------------------------------------------------------------------
(* Properties of the discount table.                                        *)

\* the rows of the discount sheet dated in week w whose discount converts to a
\* number above 0
PositiveIn(w) ==
    {i \in 1..Len(desc_rows) :
        /\ ~desc_rows[i].Fecha.na
        /\ to_period_W_FRI(desc_rows[i].Fecha.v) = w
        /\ convert_number(desc_rows[i].Descuento).m > 0}

SumDescuentos(I) ==
    SumSeq([k \in 1..Len(desc_rows) |->
               IF k \in I THEN Amount(convert_number(desc_rows[k].Descuento)).v ELSE 0])

\* C20: every total of the table load_data_descuentos returns is above 0 and is
\* the sum of discounts of source rows of its week that convert to a number above
\* 0; rows with a zero, negative or unparseable discount are in no total.
C20_OnlyPositiveDiscounts ==
    pc \in {"pagos", "done"} =>
        /\ \A i \in 1..Len(df_desc) : df_desc[i].Descuento_Num_Temp > 0
        /\ \A r \in df_desc_agg :
               /\ r.Descuento_Renovacion > 0
               /\ \E I \in SUBSET PositiveIn(r.Semana) :
                      I # {} /\ r.Descuento_Renovacion = SumDescuentos(I)

\* a sheet with a discount of 15.00 and one that is negative, zero or no number: the
\* table holds 15.00 only
C20_Witness ==
    /\ pc = "done"
    /\ Len(desc_rows) = 2
    /\ convert_number(desc_rows[1].Descuento).m = 1500
    /\ convert_number(desc_rows[2].Descuento).m <= 0
    /\ desc_rows[1].Promotor = desc_rows[2].Promotor
    /\ \E r \in df_desc_agg : r.Descuento_Renovacion = 1500
    /\ Cardinality(df_desc_agg) = 1

-----------------------------------------------------------------------------
(* Properties of the status rows as days pass and deposits arrive.          *)

StateRank(e) ==
    IF e = "Al corriente" THEN 1 ELSE IF e = "Atrasado" THEN 2
    ELSE IF e = "Vencido" THEN 3 ELSE 0

\* C24: when the tab is drawn one day later for the same loans and deposits, no
\* loan has fewer payments due, no loan moves backward in the order Al corriente,
\* Atrasado, Vencido, and a Liquidado loan stays Liquidado.
C24_DateAdvance ==
    fn.pc = "day" =>
        /\ Len(filas) = Len(fn.filas)
        /\ \A i \in 1..Len(filas) :
               /\ filas[i].PagosDebidos >= fn.filas[i].PagosDebidos
               /\ fn.filas[i].Estatus = "Liquidado" => filas[i].Estatus = "Liquidado"
               /\ fn.filas[i].Estatus # "Liquidado" =>
                      StateRank(filas[i].Estatus) >= StateRank(fn.filas[i].Estatus)

\* the day a loan that was Al corriente with one payment due owes a second one
C24_Witness ==
    /\ fn.pc = "day"
    /\ \E i \in 1..Len(filas) :
           /\ fn.filas[i].Estatus = "Al corriente"
           /\ fn.filas[i].PagosDebidos = 1
           /\ filas[i].Estatus = "Atrasado"
           /\ filas[i].PagosDebidos = 2

\* loan number i has an installment > 0, a first-payment date and deposits of
\* less than 14 installments
OwesInstallments(i) ==
    /\ i <= Len(df_col_prom)
    /\ df_col_prom[i].PS > 0
    /\ ~df_col_prom[i].FechaPrimerPago.na
    /\ ~TimesLeq(14, Float64(df_col_prom[i].PS),
                 TotalDep(df_cob_prom, df_col_prom[i].Contrato))

ShownAs(i, estatus) ==
    /\ pc = "shown"
    /\ \E r \in Range(filas) : r.cred = i
    /\ \A r \in Range(filas) : r.cred = i => r.Estatus = estatus

\* every loan that owes installments is shown as Vencido
OwingLoansOverdue ==
    /\ pc = "shown"
    /\ \A i \in 1..Len(df_col_prom) : OwesInstallments(i) => ShownAs(i, "Vencido")

\* a loan that owes installments, 13 weeks or more after its first payment date,
\* is shown as Vencido
OverdueOnceFallenDue ==
    pc = "shown" =>
        \A i \in 1..Len(df_col_prom) :
            (OwesInstallments(i) /\ hoy >= df_col_prom[i].FechaPrimerPago.v + 91)
                => ShownAs(i, "Vencido")

\* C25: with no further deposits and the days passing, a loan with installment
\* > 0 and deposits of less than 14 installments is Vencido whenever the tab is
\* drawn 13 weeks or more after its first payment date, and from some day on it
\* is Vencido for ever.
C25_EventuallyOverdue == []OverdueOnceFallenDue /\ <>[]OwingLoansOverdue

\* the day a loan with deposits of three installments, late until then, falls due
C25_Witness ==
    /\ fn.pc = "day"
    /\ \E i \in 1..Len(filas) :
           /\ OwesInstallments(filas[i].cred)
           /\ filas[i].PagosCompletos = 3
           /\ fn.filas[i].Estatus = "Atrasado"
           /\ filas[i].Estatus = "Vencido"
           /\ hoy = FirstPayment(filas[i]) + 91

\* C26: when the tab is drawn again after one more deposit of a non-negative
\* amount, on the same day, no loan with installment > 0 has fewer complete or
\* advance payments or a larger overdue amount, and none goes from Liquidado or
\* Al corriente to Atrasado or Vencido.
C26_DepositAdded ==
    (fn.pc = "deposit" /\ fn.row.Deposito >= 0) =>
        /\ Len(filas) = Len(fn.filas)
        /\ \A i \in 1..Len(filas) :
               LoanOf(filas[i]).PS > 0 =>
                   /\ filas[i].PagosCompletos >= fn.filas[i].PagosCompletos
                   /\ filas[i].PagosAdelantados >= fn.filas[i].PagosAdelantados
                   /\ ~FloatLess(fn.filas[i].SaldoVencido, filas[i].SaldoVencido)
                   /\ fn.filas[i].Estatus \in {"Liquidado", "Al corriente"} =>
                          filas[i].Estatus \in {"Liquidado", "Al corriente"}

\* a deposit of one installment that brings a late loan up to date
C26_Witness ==
    /\ fn.pc = "deposit"
    /\ fn.row.Deposito > 0
    /\ \E i \in 1..Len(filas) :
           /\ LoanOf(filas[i]).PS > 0
           /\ fn.row.Contrato = LoanOf(filas[i]).Contrato
           /\ filas[i].PagosCompletos > fn.filas[i].PagosCompletos
           /\ FloatLess(filas[i].SaldoVencido, fn.filas[i].SaldoVencido)
           /\ fn.filas[i].Estatus = "Atrasado"
           /\ filas[i].Estatus = "Al corriente"

\* C27: for every row with installment > 0, the state is Atrasado or Vencido
\* exactly when the overdue amount is > 0, and advance payments > 0 come with an
\* overdue amount of 0 and the state Al corriente or Liquidado.
C27_Original ==
    pc = "shown" =>
        \A r \in Range(filas) :
            LoanOf(r).PS > 0 =>
                /\ r.Estatus \in {"Atrasado", "Vencido"}
                       <=> FloatLess(FloatZero, r.SaldoVencido)
                /\ r.PagosAdelantados > 0 =>
                       /\ r.SaldoVencido = FloatZero
                       /\ r.Estatus \in {"Al corriente", "Liquidado"}

\* C28: a row is Vencido exactly when 14 payments are due and fewer than 14 are
\* complete; an Atrasado row has at most 13 payments due, also before the first
\* payment date.
C28_OverdueIffAllDue ==
    pc = "shown" =>
        \A r \in Range(filas) :
            /\ r.Estatus = "Vencido" <=> (r.PagosDebidos = 14 /\ r.PagosCompletos < 14)
            /\ r.Estatus = "Atrasado" => r.PagosDebidos <= 13

\* a Vencido row with one payment complete, drawn on the day the credit falls due
C28_Witness ==
    /\ pc = "shown"
    /\ \E r \in Range(filas) :
           /\ r.Estatus = "Vencido"
           /\ r.PagosDebidos = 14
           /\ r.PagosCompletos = 1
           /\ hoy = FirstPayment(r) + 91

\* C29: every row has 1 to 14 payments due, 0 to 14 complete, 0 or 1 incomplete,
\* an overdue amount >= 0 and 0 to 13 advance payments.
C29_Original ==
    pc = "shown" =>
        \A r \in Range(filas) :
            /\ r.PagosDebidos \in 1..14
            /\ r.PagosCompletos \in 0..14
            /\ r.PagosIncompletos \in {0, 1}
            /\ ~r.SaldoVencido.neg
            /\ r.PagosAdelantados \in 0..13

-----------------------------------------------------------------------------
(* Properties of the optional uploads.                                      *)

FilesLoaded(after) == fn.pc \in after \cup {"tabs", "shown", "raised"}

\* C21: when an optional file (disbursements, discounts, expected balances) is
\* not given, its loader returns an empty table, and what is computed from that
\* table is zero or empty and nothing raises: in particular the KPIs of a
\* promoter, which read the due date, the overdue amount and the installment
\* of the expected balances, are all 0
C21_Original ==
    /\ (FilesLoaded({"descuentos", "pagos"}) /\ ~fn.col_file.given) =>
           /\ Empty(fn.df_col_agg)
           /\ Empty(fn.df_colocaciones_raw_details)
           /\ Empty(fn.df_colocaciones_info_completa)
    /\ (FilesLoaded({"pagos"}) /\ ~fn.por_capturar_file.given) => Empty(fn.df_desc_agg)
    /\ (FilesLoaded({}) /\ ~fn.pagos_file.given) =>
           /\ Empty(fn.df_pagos_raw)
           /\ fn.pc # "raised"
           /\ fn.pc = "shown" => fn.kpis = NoKpis

\* C22: when the disbursement sheet lacks a required column,
\* load_data_colocaciones returns an empty aggregate and an empty detail table
C22_Original ==
    (/\ FilesLoaded({"descuentos", "pagos"})
     /\ fn.col_file.given
     /\ fn.col_file.readable
     /\ cols_to_read_from_excel \ fn.col_file.columns # {}) =>
        /\ Empty(fn.df_col_agg)
        /\ Empty(fn.df_colocaciones_raw_details)

-----------------------------------------------------------------------------
(* Properties of the target summary and of the promoter summary.            *)

\* the targets of the sheets named p whose date falls in week w, in the order
\* of the sheet
SheetMetas(p, w) ==
    LET rows == ConcatMetas(fn.vas_file.sheets)
    IN  Column(SelectIdx(rows,
                         {i \in 1..Len(rows) :
                             /\ rows[i].Promotor = p
                             /\ ~rows[i].Fecha.na
                             /\ to_period_W_FRI(rows[i].Fecha.v) = w}, 1),
               "Meta")

OneRecordPerWeek ==
    /\ \A r, s \in fn.df_metas_summary :
           (r.Promotor = s.Promotor /\ r.Semana = s.Semana) => r = s
    /\ \A r \in fn.df_metas_summary : SheetMetas(r.Promotor, r.Semana) # <<>>

\* C23 as stated: the target summary holds at most one record per (promoter
\* code, week), and the amount of a record is the amount of the first row of
\* that promoter and week in source order, also when that amount is missing
C23_Original ==
    fn.pc # "control" =>
        /\ OneRecordPerWeek
        /\ \A r \in fn.df_metas_summary :
               r.Meta = SheetMetas(r.Promotor, r.Semana)[1]

\* C23 amended: the target summary holds at most one record per (promoter
\* code, week), and the amount of a record is the first amount that is not
\* missing among the rows of that promoter and week in source order; it is
\* missing only when the amount of every such row is missing
C23_FirstPresentWins ==
    fn.pc # "control" =>
        /\ OneRecordPerWeek
        /\ \A r \in fn.df_metas_summary :
               LET cells == SheetMetas(r.Promotor, r.Semana)
               IN  \/ r.Meta.na /\ \A i \in 1..Len(cells) : cells[i].na
                   \/ \E i \in 1..Len(cells) :
                          /\ ~cells[i].na
                          /\ r.Meta = cells[i]
                          /\ \A j \in 1..(i - 1) : cells[j].na

\* two rows of P1 in one week, the first without amount, and the record of that
\* week holds the amount of the second
C23_Witness ==
    /\ fn.pc = "cobranza"
    /\ \E r \in fn.df_metas_summary :
           LET cells == SheetMetas(r.Promotor, r.Semana)
           IN  /\ Len(cells) = 2
               /\ cells[1].na
               /\ ~cells[2].na
               /\ r.Meta = cells[2]

\* C30: for every promoter of the roster, the total collection of
\* build_promoters_summary is the sum of the deposits reconciled to the code of
\* that promoter, by whichever tier
C30_Original ==
    fn.pc = "done" =>
        \A r \in fn.df_promoters_summary :
            r.Total_Cobranza = TotalCobByCode(fn.df_cobranza, r.N)

====
